---------------------------- MODULE Spec2Model ----------------------------
(***************************************************************************)
(* A model of the QLab box controller (app/core.py, app/discover.py,       *)
(* app/daemon.py).                                                         *)
(*                                                                         *)
(* The module holds several specifications over one set of variables, one  *)
(* per subsystem:                                                          *)
(*   SpecRoles  discover.decide_roles applied to discovery inputs          *)
(*   SpecStore  core.StateManager.save / load at file-operation grain      *)
(*   SpecWatch  the supervisor's heartbeat / reconcile loop on a clock     *)
(*   SpecPair   concurrent daemon.run_pairing_auto invocations             *)
(*   SpecSend   core.SendWorker: the bounded queue and its worker          *)
(*   SpecSendLive  the same with the worker scheduled fairly               *)
(*   SpecLed    daemon.LEDWorker rendering on a clock                      *)
(*   SpecLedSelect  the supervisor's choice of LED states                  *)
(*   SpecRecord the persisted record and the threads that write it         *)
(*   SpecInput  the button, encoder and pair-switch callbacks              *)
(*   SpecTick   run_daemon's loop against a record purged under it         *)
(*   SpecClassify  discover._classify over workspace names                 *)
(*   SpecBases  decide_roles over the names of several bases               *)
(*   SpecOsc    core._osc_handler and the callers of connect_endpoint      *)
(*   SpecWaiter core.ReplyWaiter under any sequence of its operations      *)
(*   SpecDiscover  discover.discover_by_broadcast and the discovery store  *)
(*   SpecRoleLed  the per-role LED states against their windows            *)
(*   SpecConnect  the supervisor's passes and core.ensure_connected        *)
(* A specification leaves the variables of the other subsystems at their   *)
(* initial values.                                                         *)
(***************************************************************************)
EXTENDS Integers, Sequences, FiniteSets, TLC

VARIABLES
    \* --- SpecRoles ---
    adverts,      \* what the responders advertise: set of [ip, ws_name, ws_id]
    outcome,      \* result of decide_roles on one ordering of adverts, or NotDecided
    \* --- SpecStore ---
    fsDir,        \* the state directory: path -> inode number (NoIno: no such file)
    inodes,       \* inode number -> [data, written, mtime]
    fsClock,      \* source of modification times
    lockOwner,    \* holder of StateManager._lock, or NoThread
    saver,        \* per thread: position in StateManager.save and its argument
    cache,        \* StateManager._cache
    cacheMtime,   \* StateManager._mtime
    loaded,       \* what the last StateManager.load returned
    reader,       \* a reader of the backing file that takes no lock
    committed,    \* the record the backing file holds since the last rename
    saves,        \* number of save calls started
    \* --- SpecWatch ---
    now,                \* qc.mono(), in seconds
    reachable,          \* the addresses a remote answers from in this run
    reopened,           \* times that remote has reopened its workspace
    state,              \* the persisted record, as STATE.load() returns it
    LAST_SEEN_BY_IP,    \* core.LAST_SEEN_BY_IP
    _last_thump_sent,   \* daemon._last_thump_sent
    _last_reconcile,    \* daemon._last_reconcile
    _offline_backoff,   \* daemon._offline_backoff
    _offline_next_try,  \* daemon._offline_next_try
    thumps,             \* history: times of the last two thumps enqueued, per (ip, workspace id)
    asks,               \* history: the /workspaces requests sent, per role
    fails,              \* history: failed reconcile attempts in a row, per role
    answered,           \* history: what the last pass found for each role
    \* --- SpecPair ---
    DISCOVERY_ACTIVE,   \* daemon.DISCOVERY_ACTIVE
    _DISCOVERY_LOCK,    \* holder of daemon._DISCOVERY_LOCK, or NoThread
    pairPc,             \* per caller: position in run_pairing_auto
    broadcasted,        \* per caller: its current call has broadcast
    _PAIR_FATAL_FAIL,   \* daemon._PAIR_FATAL_FAIL
    _PAIR_CONFLICT,     \* daemon._PAIR_CONFLICT
    \* --- SpecSend ---
    q,                  \* core.SENDW.q, oldest message first
    handed,             \* history: the messages given to the UDP client, in order
    sent,               \* per thread: number of SendWorker.send calls made
    put,                \* history: the last SendWorker.send call and the queue around it
    alive,              \* the worker thread is in the loop of SendWorker.run
    raisedOn,           \* history: the messages on which send_message raised
    \* --- SpecLed ---
    monoCs,             \* qc.mono(), in hundredths of a second
    _steady,            \* LEDW._steady, per role
    _blink,             \* LEDW._blink
    _toggle,            \* LEDW._toggle, in hundredths of a second
    _flash_until,       \* LEDW._flash_until
    _fade_start,        \* LEDW._fade_start
    _fade_from,         \* LEDW._fade_from
    _last_rendered,     \* LEDW._last_rendered
    _flash_active,      \* LEDW._flash_active
    ROLE_BY_IP,         \* core.ROLE_BY_IP
    seenCs,             \* core.LAST_SEEN_BY_IP, in hundredths of a second
    rendered,           \* history: what the renderer's last pass did for each role
    ticked,             \* history: what the supervisor's last LED selection read
    acked,              \* history: the last acknowledged cue action and the flash it caused
    ackCount,           \* number of acknowledgements received
    \* --- SpecRecord ---
    _HEAL_MISMATCH_UNTIL,   \* daemon._HEAL_MISMATCH_UNTIL, in hundredths of a second
    _MISSING_UNTIL,         \* daemon._MISSING_UNTIL, in hundredths of a second
    RESTART_EVENT,          \* daemon.RESTART_EVENT.is_set()
    healPc,                 \* heal_reconcile_strict: "idle", or the role its loop is at
    healSt,                 \* heal_reconcile_strict: its local st
    healEps,                \* heal_reconcile_strict: its local eps
    supPc,                  \* run_daemon: "top", the role its second loop is at, "leds", "restarted"
    supEps,                 \* run_daemon: its local eps
    pausePc,                \* do_pause: "idle", or "toggle" once the warm-up is done
    ticks,                  \* number of iterations of run_daemon's loop so far
    presses,                \* number of button events and commands so far
    runs,                   \* history: per pairing thread, the record when it started and whether another thread wrote since
    ended,                  \* history: per pairing thread, how its last pair_auto ended
    healWrote,              \* history: the last STATE.save of heal_reconcile_strict
    held,                   \* history: the last hold of the pair button
    \* --- SpecInput ---
    _last_fire,             \* daemon._last_fire, in hundredths of a second
    _pair_pressed_mono,     \* daemon._pair_pressed_mono
    _pair_held_fired,       \* daemon._pair_held_fired
    pairDown,               \* the pair switch is pressed
    cb,                     \* per input thread: position of the action callback it runs
    outbox,                 \* history: the messages the action callbacks gave to SENDW.send
    escaped,                \* history: per thread, an error has left its function
    events,                 \* number of events so far: fires, presses of the switch, advances of the clock
    fires,                  \* history: times of the last two accepted fires, per key
    call,                   \* history: the last call of an action callback
    pairEvent,              \* history: the last hold or release of the pair switch
    \* --- SpecClassify ---
    wsName,                \* _classify: its argument
    classified,             \* _classify: what it returned for wsName, or NotClassified
    \* --- SpecOsc ---
    _events,            \* WAITERS._events: key -> the caller whose Event is registered
    _payloads,          \* WAITERS._payloads: key -> the last reply stored under it
    evSet,              \* per caller of connect_endpoint: its Event is set
    conn,               \* per caller of connect_endpoint: where it is in the function
    discovered,         \* DISCOVERY: the addresses that answered /workspaces
    arrived,              \* history: the statuses of the replies under the caller's key since it armed
    handled,            \* history: the last reply _osc_handler processed and what it changed
    left,               \* history: the last return of connect_endpoint
    nReplies,           \* number of replies received
    armedAt,            \* history: per key, the number of replies received when it was last armed
    \* --- SpecDiscover ---
    _map,               \* DISCOVERY._map: address -> the last /workspaces reply from it
    discPc,             \* discover_by_broadcast: where the call is
    r1,                 \* discover_by_broadcast: r1, as address -> wsmap
    r2,                 \* discover_by_broadcast: r2, as address -> wsmap
    found,         \* discover_by_broadcast: what it returned
    discLog,            \* history: the clears and broadcasts of the call, in order
    got1,               \* history: address -> the last reply received in the window of phase 1
    got2,               \* history: address -> the last reply received in the window of phase 2
    nAdds,              \* number of /workspaces replies received
    ledSteps,           \* number of replies, repairs and pairings the role LEDs have been through
    \* --- SpecConnect ---
    _last,              \* ensure_connected's _last: address -> the time of its last connect that was let through
    connects,           \* history: (address, identifier) -> the time of the last /workspace/<id>/connect sent
    okReply             \* history: (address, identifier) -> the time of the last reply with status ok about it

rolesVars == <<adverts, outcome>>

storeVars ==
    <<fsDir, inodes, fsClock, lockOwner, saver, cache, cacheMtime, loaded,
      reader, committed, saves>>

watchVars ==
    <<now, reachable, reopened, state, LAST_SEEN_BY_IP, _last_thump_sent, _last_reconcile,
      _offline_backoff, _offline_next_try, thumps, asks, fails, answered>>

pairVars ==
    <<DISCOVERY_ACTIVE, _DISCOVERY_LOCK, pairPc, broadcasted, _PAIR_FATAL_FAIL,
      _PAIR_CONFLICT>>

sendVars == <<q, handed, sent, put, alive, raisedOn>>

ledVars ==
    <<monoCs, _steady, _blink, _toggle, _flash_until, _fade_start, _fade_from,
      _last_rendered, _flash_active, ROLE_BY_IP, seenCs, rendered, ticked, acked, ackCount>>

recVars ==
    <<_HEAL_MISMATCH_UNTIL, _MISSING_UNTIL, RESTART_EVENT, healPc, healSt, healEps,
      supPc, supEps, ticks, pausePc, presses, runs, ended, healWrote, held>>

inputVars ==
    <<_last_fire, _pair_pressed_mono, _pair_held_fired, pairDown, cb, outbox,
      escaped, events, fires, call, pairEvent>>

clsVars == <<wsName, classified>>

oscVars ==
    <<_events, _payloads, evSet, conn, discovered, arrived, handled, left, nReplies,
      armedAt>>

discVars ==
    <<_map, discPc, r1, r2, found, discLog, got1, got2, nAdds, ledSteps>>

connVars == <<_last, connects, okReply>>

vars == <<rolesVars, storeVars, watchVars, pairVars, sendVars, ledVars, recVars, inputVars, clsVars, oscVars, discVars, connVars>>

notRoles == <<storeVars, watchVars, pairVars, sendVars, ledVars, recVars, inputVars, clsVars, oscVars, discVars, connVars>>
notStore == <<rolesVars, watchVars, pairVars, sendVars, ledVars, recVars, inputVars, clsVars, oscVars, discVars, connVars>>
notWatch == <<rolesVars, storeVars, pairVars, sendVars, ledVars, recVars, inputVars, clsVars, oscVars, discVars, connVars>>
notPair == <<rolesVars, storeVars, watchVars, sendVars, ledVars, recVars, inputVars, clsVars, oscVars, discVars, connVars>>
notSend == <<rolesVars, storeVars, watchVars, pairVars, ledVars, recVars, inputVars, clsVars, oscVars, discVars, connVars>>
notLed == <<rolesVars, storeVars, watchVars, pairVars, sendVars, recVars, inputVars, clsVars, oscVars, discVars, connVars>>
notRec == <<rolesVars, storeVars, watchVars, pairVars, sendVars, ledVars, inputVars, clsVars, oscVars, discVars, connVars>>
notInput == <<rolesVars, storeVars, watchVars, pairVars, sendVars, ledVars, recVars, clsVars, oscVars, discVars, connVars>>
notCls == <<rolesVars, storeVars, watchVars, pairVars, sendVars, ledVars, recVars, inputVars, oscVars, discVars, connVars>>
notOsc == <<rolesVars, storeVars, watchVars, pairVars, sendVars, ledVars, recVars, inputVars, clsVars, discVars, connVars>>
notDisc == <<rolesVars, storeVars, watchVars, pairVars, sendVars, ledVars, recVars, inputVars, clsVars, oscVars, connVars>>
notConn == <<rolesVars, storeVars, watchVars, pairVars, sendVars, ledVars, recVars, inputVars, clsVars, oscVars, discVars>>

(***************************************************************************)
(* Strings whose characters matter (workspace names, suffixes, bases) are  *)
(* sequences of one-character strings.  Ascii lists the characters in      *)
(* code point order, so Ord preserves Python's str ordering.               *)
(***************************************************************************)
Ascii ==
    << "1", "S", "_",
       "a", "b", "c", "d", "e", "f", "g", "h", "i", "k", "l", "m", "n", "o",
       "p", "s", "t", "u", "w", "x", "y" >>

Ord(c) == CHOOSE i \in DOMAIN Ascii : Ascii[i] = c

RECURSIVE StrLessFrom(_, _, _)
StrLessFrom(a, b, i) ==
    IF i > Len(a) THEN i <= Len(b)
    ELSE IF i > Len(b) THEN FALSE
    ELSE IF Ord(a[i]) < Ord(b[i]) THEN TRUE
    ELSE IF Ord(a[i]) > Ord(b[i]) THEN FALSE
    ELSE StrLessFrom(a, b, i + 1)

\* Python's a < b on str
StrLess(a, b) == StrLessFrom(a, b, 1)

\* the list sorted, its last element taken
SortedLast(S) == CHOOSE b \in S : \A c \in S \ {b} : StrLess(c, b)

\* list.sort() followed by [0]
SortedFirst(S) == CHOOSE b \in S : \A c \in S \ {b} : StrLess(b, c)

\* str.endswith
EndsWith(s, suf) ==
    /\ Len(suf) <= Len(s)
    /\ SubSeq(s, Len(s) - Len(suf) + 1, Len(s)) = suf

\* s[: -len(suf)]
StripSuffix(s, suf) == SubSeq(s, 1, Len(s) - Len(suf))

(***************************************************************************)
(* Configuration (config/user_config.py, read by core.py).                 *)
(***************************************************************************)
EXPECTED_WS_MAIN == << "s", "h", "o", "w", "_", "m", "a", "i", "n" >>
EXPECTED_WS_BACKUP == << "s", "h", "o", "w", "_", "b", "a", "c", "k", "u", "p" >>
SUFFIX_MAIN == << "_", "m", "a", "i", "n" >>
SUFFIX_BACKUP == << "_", "b", "a", "c", "k", "u", "p" >>
SUFFIX_AUX1 == << "_", "a", "u", "x", "1" >>
LEGACY_BASE ==
    << "_", "_", "l", "e", "g", "a", "c", "y", "_", "e", "x", "p", "e", "c",
       "t", "e", "d", "_", "_" >>

ROLES == << "main", "backup", "aux" >>
RoleSet == { ROLES[i] : i \in DOMAIN ROLES }

(***************************************************************************)
(* discover.py: Candidate, _classify, decide_roles                         *)
(***************************************************************************)
Candidate(ip, ws_name, ws_id, kind, base) ==
    [ip |-> ip, ws_name |-> ws_name, ws_id |-> ws_id, kind |-> kind, base |-> base]

Endpoint(ip, role, workspace_name, workspace_id) ==
    [ip |-> ip, role |-> role, workspace_name |-> workspace_name,
     workspace_id |-> workspace_id]

\* the suffixes are tested before the legacy names
ClassifySuffixFirst(ws_name) ==
    IF EndsWith(ws_name, SUFFIX_MAIN)
        THEN << "main", StripSuffix(ws_name, SUFFIX_MAIN) >>
    ELSE IF EndsWith(ws_name, SUFFIX_BACKUP)
        THEN << "backup", StripSuffix(ws_name, SUFFIX_BACKUP) >>
    ELSE IF EndsWith(ws_name, SUFFIX_AUX1)
        THEN << "aux", StripSuffix(ws_name, SUFFIX_AUX1) >>
    ELSE IF ws_name = EXPECTED_WS_MAIN THEN << "main", LEGACY_BASE >>
    ELSE IF ws_name = EXPECTED_WS_BACKUP THEN << "backup", LEGACY_BASE >>
    ELSE << "plain", ws_name >>

\* returns <<kind, base>>
_classify(ws_name) ==
    IF ws_name = EXPECTED_WS_MAIN THEN << "main", LEGACY_BASE >>
    ELSE IF ws_name = EXPECTED_WS_BACKUP THEN << "backup", LEGACY_BASE >>
    ELSE IF EndsWith(ws_name, SUFFIX_MAIN)
        THEN << "main", StripSuffix(ws_name, SUFFIX_MAIN) >>
    ELSE IF EndsWith(ws_name, SUFFIX_BACKUP)
        THEN << "backup", StripSuffix(ws_name, SUFFIX_BACKUP) >>
    ELSE IF EndsWith(ws_name, SUFFIX_AUX1)
        THEN << "aux", StripSuffix(ws_name, SUFFIX_AUX1) >>
    ELSE << "plain", ws_name >>

\* the inner loop of lines 79-83 over one responder's wsmap.items()
RECURSIVE CandsOfItems(_, _, _)
CandsOfItems(ip, items, i) ==
    IF i > Len(items) THEN << >>
    ELSE LET ws_name == items[i][1]
             ws_id == items[i][2]
             cl == _classify(ws_name)
         IN  (IF ws_id # ""
                THEN << Candidate(ip, ws_name, ws_id, cl[1], cl[2]) >>
                ELSE << >>)
             \o CandsOfItems(ip, items, i + 1)

\* the outer loop of lines 79-83
RECURSIVE CollectCands(_, _)
CollectCands(responders, i) ==
    IF i > Len(responders) THEN << >>
    ELSE CandsOfItems(responders[i][1], responders[i][2], 1)
         \o CollectCands(responders, i + 1)

\* one iteration of the loop of lines 99-105 on candidate c; by_base maps a
\* base to a map kind -> Candidate
ByBaseStepOverwrite(st, c) ==
    IF c.kind \notin {"main", "backup"} THEN st
    ELSE LET bb == IF c.base \in DOMAIN st.by_base THEN st.by_base
                   ELSE (c.base :> << >>) @@ st.by_base
         IN  [st EXCEPT !.by_base = [bb EXCEPT ![c.base] = (c.kind :> c) @@ @]]

ByBaseStep(st, c) ==
    IF c.kind \notin {"main", "backup"} THEN st
    ELSE LET bb == IF c.base \in DOMAIN st.by_base THEN st.by_base
                   ELSE (c.base :> << >>) @@ st.by_base
         IN  IF c.kind \in DOMAIN bb[c.base]
               THEN [dup |-> TRUE, by_base |-> bb]
               ELSE [dup |-> FALSE,
                     by_base |-> [bb EXCEPT ![c.base] = (c.kind :> c) @@ @]]

RECURSIVE GroupByBase(_, _, _)
GroupByBase(cands, i, st) ==
    IF i > Len(cands) \/ st.dup THEN st
    ELSE GroupByBase(cands, i + 1, ByBaseStep(st, cands[i]))

Raise(err) == [kind |-> err, assigned |-> << >>]
Ok(assigned) == [kind |-> "ok", assigned |-> assigned]

\* lines 90-91: more than one auxiliary candidate is a conflict
AuxConflictNever(aux_cands) == FALSE

AuxConflict(aux_cands) == Len(aux_cands) > 1

\* lines 88-95: the single auxiliary candidate, if any
AuxAssigned(aux_cands) ==
    IF Len(aux_cands) = 1
      THEN LET c == aux_cands[1]
           IN  ("aux" :> Endpoint(c.ip, "aux", c.ws_name, c.ws_id))
      ELSE << >>

\* lines 124-150 when a base was selected
AssignSelectedMainTwice(mm, aux_cands) ==
    IF "main" \notin DOMAIN mm THEN Raise("ConflictError")
    ELSE LET m == mm["main"]
             withMain == ("main" :> Endpoint(m.ip, "main", m.ws_name, m.ws_id))
             withBackup ==
                 IF "backup" \in DOMAIN mm
                   THEN ("backup" :> Endpoint(m.ip, "backup", m.ws_name, m.ws_id))
                        @@ withMain
                   ELSE withMain
         IN  Ok(AuxAssigned(aux_cands) @@ withBackup)

AssignSelected(mm, aux_cands) ==
    IF "main" \notin DOMAIN mm THEN Raise("ConflictError")
    ELSE LET m == mm["main"]
             withMain == ("main" :> Endpoint(m.ip, "main", m.ws_name, m.ws_id))
             withBackup ==
                 IF "backup" \in DOMAIN mm
                   THEN LET b == mm["backup"]
                        IN  ("backup" :> Endpoint(b.ip, "backup", b.ws_name, b.ws_id))
                            @@ withMain
                   ELSE withMain
         IN  Ok(AuxAssigned(aux_cands) @@ withBackup)

\* lines 135-145: fallback on a single plain workspace
AssignPlainFirst(cands, aux_cands) ==
    LET plains == SelectSeq(cands, LAMBDA c : c.kind = "plain")
    IN  IF Len(plains) = 0 THEN Raise("NoRespondersError")
        ELSE LET p == plains[1]
             IN  Ok(AuxAssigned(aux_cands)
                    @@ ("main" :> Endpoint(p.ip, "main", p.ws_name, p.ws_id)))

AssignPlain(cands, aux_cands) ==
    LET plains == SelectSeq(cands, LAMBDA c : c.kind = "plain")
    IN  IF Len(plains) = 0 THEN Raise("NoRespondersError")
        ELSE IF Len(plains) > 1 THEN Raise("ConflictError")
        ELSE LET p == plains[1]
             IN  Ok(AuxAssigned(aux_cands)
                    @@ ("main" :> Endpoint(p.ip, "main", p.ws_name, p.ws_id)))

\* lines 107-122: the selected base, or NoBase
NoBase == << "None" >>

\* several bases with a primary and none complete: one of them is taken
SelectBaseAnyMain(by_base) ==
    LET complete_bases ==
            {b \in DOMAIN by_base :
                "main" \in DOMAIN by_base[b] /\ "backup" \in DOMAIN by_base[b]}
        main_bases == {b \in DOMAIN by_base : "main" \in DOMAIN by_base[b]}
    IN  IF complete_bases # {}
          THEN [err |-> FALSE, base |-> SortedFirst(complete_bases)]
        ELSE IF main_bases # {}
          THEN [err |-> FALSE, base |-> SortedFirst(main_bases)]
        ELSE [err |-> FALSE, base |-> NoBase]

SelectBase(by_base) ==
    LET complete_bases ==
            {b \in DOMAIN by_base :
                "main" \in DOMAIN by_base[b] /\ "backup" \in DOMAIN by_base[b]}
        main_bases == {b \in DOMAIN by_base : "main" \in DOMAIN by_base[b]}
    IN  IF complete_bases # {}
          THEN [err |-> FALSE, base |-> SortedFirst(complete_bases)]
        ELSE IF Cardinality(main_bases) > 1 THEN [err |-> TRUE, base |-> NoBase]
        ELSE IF Cardinality(main_bases) = 1
          THEN [err |-> FALSE, base |-> CHOOSE b \in main_bases : TRUE]
        ELSE [err |-> FALSE, base |-> NoBase]

decide_roles(responders) ==
    IF Len(responders) = 0 THEN Raise("NoRespondersError")
    ELSE
    LET cands == CollectCands(responders, 1)
        aux_cands == SelectSeq(cands, LAMBDA c : c.kind = "aux")
    IN  IF Len(cands) = 0 THEN Raise("NoRespondersError")
        ELSE IF AuxConflict(aux_cands) THEN Raise("ConflictError")
        ELSE
        LET grouped == GroupByBase(cands, 1, [dup |-> FALSE, by_base |-> << >>])
        IN  IF grouped.dup THEN Raise("ConflictError")
            ELSE
            LET sel == SelectBase(grouped.by_base)
            IN  IF sel.err THEN Raise("ConflictError")
                ELSE IF sel.base # NoBase
                  THEN AssignSelected(grouped.by_base[sel.base], aux_cands)
                ELSE AssignPlain(cands, aux_cands)

(***************************************************************************)
(* StateManager (core.py): the persisted record and its backing file.      *)
(*                                                                         *)
(* The directory maps a path to an inode; a file's bytes live in the inode *)
(* and are the first `written` of the Chunks pieces json.dump produces for *)
(* `data`.  Only a file with all its pieces parses as a record.  An open   *)
(* file keeps its inode, whatever the directory says afterwards.           *)
(***************************************************************************)
Chunks == 2
MaxSaves == 3

Records == {"recA", "recB"}
EmptyRecord == "{}"
NoIno == 0
NoThread == "none"
NoMtime == -1
Threads == {"supervisor", "button"}

StatePath == "state.json"

\* a save that opens the backing file itself
TmpPathInPlace == StatePath

\* tmp = self.path + ".tmp"
TmpPath == "state.json.tmp"

Paths == {StatePath, TmpPath}

FileOf(data, written, mtime) == [data |-> data, written |-> written, mtime |-> mtime]

Complete(file) == file.written = Chunks

\* json.load of a file's bytes: a record, or an exception on a prefix
Parses(file) == Complete(file)

\* os.stat(path).st_mtime, -1.0 on exception
StatMtime(path) ==
    IF fsDir[path] = NoIno THEN NoMtime ELSE inodes[fsDir[path]].mtime

\* StateManager._read_file: {} on any exception
_read_file ==
    IF fsDir[StatePath] = NoIno THEN EmptyRecord
    ELSE IF Parses(inodes[fsDir[StatePath]]) THEN inodes[fsDir[StatePath]].data
    ELSE EmptyRecord

FreshIno == Cardinality(DOMAIN inodes) + 1

IdleSaver == [pc |-> "idle", st |-> EmptyRecord, ino |-> NoIno]

IdleReader == [pc |-> "idle", ino |-> NoIno, rec |-> EmptyRecord,
               torn |-> FALSE, allowed |-> {}]

StoreStart(present) ==
    /\ fsDir = [p \in Paths |-> IF p = StatePath /\ present THEN 1 ELSE NoIno]
    /\ inodes = IF present THEN (1 :> FileOf("recA", Chunks, 0)) ELSE << >>
    /\ fsClock = 0
    /\ lockOwner = NoThread
    /\ saver = [t \in Threads |-> IdleSaver]
    /\ cache = EmptyRecord
    /\ cacheMtime = NoMtime
    /\ loaded = [rec |-> EmptyRecord, file |-> EmptyRecord]
    /\ reader = IdleReader
    /\ committed = IF present THEN "recA" ELSE EmptyRecord
    /\ saves = 0

\* StateManager.load, the whole call under the lock
load(t) ==
    /\ lockOwner = NoThread
    /\ saver[t].pc = "idle"
    /\ LET mtime == StatMtime(StatePath)
           fresh == IF mtime # cacheMtime THEN _read_file ELSE cache
       IN  /\ cache' = fresh
           /\ cacheMtime' = mtime
           /\ loaded' = [rec |-> fresh, file |-> committed]
    /\ UNCHANGED <<fsDir, inodes, fsClock, lockOwner, saver, reader, committed,
                   saves, notStore>>

\* save: with self._lock
save_lock(t, st) ==
    /\ saves < MaxSaves
    /\ saver[t].pc = "idle"
    /\ lockOwner = NoThread
    /\ lockOwner' = t
    /\ saver' = [saver EXCEPT ![t] = [pc |-> "open", st |-> st, ino |-> NoIno]]
    /\ saves' = saves + 1
    /\ UNCHANGED <<fsDir, inodes, fsClock, cache, cacheMtime, loaded, reader,
                   committed, notStore>>

\* save: open(tmp, "w") creates the file or truncates the one at that path
save_open(t) ==
    /\ saver[t].pc = "open"
    /\ LET ino == IF fsDir[TmpPath] = NoIno THEN FreshIno ELSE fsDir[TmpPath]
       IN  /\ fsDir' = [fsDir EXCEPT ![TmpPath] = ino]
           /\ inodes' = (ino :> FileOf(saver[t].st, 0, fsClock + 1)) @@ inodes
           /\ saver' = [saver EXCEPT ![t].pc = "dump", ![t].ino = ino]
    /\ fsClock' = fsClock + 1
    /\ UNCHANGED <<lockOwner, cache, cacheMtime, loaded, reader, committed,
                   saves, notStore>>

\* save: json.dump, a piece of the text reaches the file
save_dump(t) ==
    /\ saver[t].pc = "dump"
    /\ inodes[saver[t].ino].written < Chunks
    /\ inodes' = [inodes EXCEPT ![saver[t].ino].written = @ + 1,
                                ![saver[t].ino].mtime = fsClock + 1]
    /\ fsClock' = fsClock + 1
    /\ UNCHANGED <<fsDir, lockOwner, saver, cache, cacheMtime, loaded, reader,
                   committed, saves, notStore>>

\* save: f.flush(); os.fsync(f.fileno()); close - the whole text is in the file
save_flush(t) ==
    /\ saver[t].pc = "dump"
    /\ inodes' = [inodes EXCEPT ![saver[t].ino].written = Chunks,
                                ![saver[t].ino].mtime = fsClock + 1]
    /\ fsClock' = fsClock + 1
    /\ saver' = [saver EXCEPT ![t].pc = "replace"]
    /\ UNCHANGED <<fsDir, lockOwner, cache, cacheMtime, loaded, reader,
                   committed, saves, notStore>>

\* save: os.replace(tmp, self.path), one step of the file system
save_replace(t) ==
    /\ saver[t].pc = "replace"
    /\ fsDir' = [p \in Paths |-> IF p = StatePath THEN fsDir[TmpPath] ELSE NoIno]
    /\ committed' = saver[t].st
    /\ reader' = IF reader.pc = "open"
                   THEN [reader EXCEPT !.allowed = @ \cup {saver[t].st}]
                   ELSE reader
    /\ saver' = [saver EXCEPT ![t].pc = "stat"]
    /\ UNCHANGED <<inodes, fsClock, lockOwner, cache, cacheMtime, loaded,
                   saves, notStore>>

\* save: self._cache = dict(st); self._mtime = stat; the lock is released
save_done(t) ==
    /\ saver[t].pc = "stat"
    /\ cache' = saver[t].st
    /\ cacheMtime' = StatMtime(StatePath)
    /\ lockOwner' = NoThread
    /\ saver' = [saver EXCEPT ![t] = IdleSaver]
    /\ UNCHANGED <<fsDir, inodes, fsClock, loaded, reader, committed, saves,
                   notStore>>

\* a reader of the backing file opens it (no lock: another process, a tool)
reader_open ==
    /\ reader.pc # "open"
    /\ reader' = IF fsDir[StatePath] = NoIno
                   THEN [pc |-> "done", ino |-> NoIno, rec |-> EmptyRecord,
                         torn |-> FALSE, allowed |-> {committed}]
                   ELSE [pc |-> "open", ino |-> fsDir[StatePath],
                         rec |-> EmptyRecord, torn |-> FALSE,
                         allowed |-> {committed}]
    /\ UNCHANGED <<fsDir, inodes, fsClock, lockOwner, saver, cache, cacheMtime,
                   loaded, committed, saves, notStore>>

\* the reader reads the bytes of the file it opened
reader_read ==
    /\ reader.pc = "open"
    /\ reader' = [reader EXCEPT !.pc = "done",
                                !.rec = inodes[reader.ino].data,
                                !.torn = ~Parses(inodes[reader.ino])]
    /\ UNCHANGED <<fsDir, inodes, fsClock, lockOwner, saver, cache, cacheMtime,
                   loaded, committed, saves, notStore>>

NextStore ==
    \/ \E t \in Threads : load(t)
    \/ \E t \in Threads, st \in Records : save_lock(t, st)
    \/ \E t \in Threads : save_open(t)
    \/ \E t \in Threads : save_dump(t)
    \/ \E t \in Threads : save_flush(t)
    \/ \E t \in Threads : save_replace(t)
    \/ \E t \in Threads : save_done(t)
    \/ reader_open
    \/ reader_read

(***************************************************************************)
(* SpecRoles: discovery inputs and decide_roles.                           *)
(*                                                                         *)
(* adverts is built one workspace at a time; Decide hands decide_roles one *)
(* of the orderings of adverts as a list of (ip, {name: id}) pairs (the    *)
(* order of the responders and of each dict's items is the caller's).      *)
(***************************************************************************)
IPs == {"10.0.0.1", "10.0.0.2"}

WsNames ==
    { EXPECTED_WS_MAIN,
      EXPECTED_WS_BACKUP,
      << "g", "a", "l", "a", "_", "m", "a", "i", "n" >>,
      << "g", "a", "l", "a", "_", "b", "a", "c", "k", "u", "p" >>,
      << "f", "x", "_", "a", "u", "x", "1" >>,
      << "g", "a", "l", "a", "_", "a", "u", "x", "1" >>,
      << "S", "o", "l", "o" >> }

\* the identifier a remote gives a workspace; "" is an empty identifier
WsIdOf(ws_name) ==
    CASE ws_name = EXPECTED_WS_MAIN -> "id-show_main"
      [] ws_name = EXPECTED_WS_BACKUP -> "id-show_backup"
      [] ws_name = << "g", "a", "l", "a", "_", "m", "a", "i", "n" >> -> "id-gala_main"
      [] ws_name = << "g", "a", "l", "a", "_", "b", "a", "c", "k", "u", "p" >> -> "id-gala_backup"
      [] ws_name = << "f", "x", "_", "a", "u", "x", "1" >> -> "id-fx_aux1"
      [] ws_name = << "g", "a", "l", "a", "_", "a", "u", "x", "1" >> -> "id-gala_aux1"
      [] OTHER -> "id-Solo"

MaxEntries == 4

NotDecided == [kind |-> "none", assigned |-> << >>]

RECURSIVE Perms(_)
Perms(S) ==
    IF S = {} THEN { << >> }
    ELSE UNION { { << x >> \o p : p \in Perms(S \ {x}) } : x \in S }

ItemsOf(ip, A) == { << a.ws_name, a.ws_id >> : a \in { x \in A : x.ip = ip } }

\* every list of (ip, items) pairs that presents the adverts A
RECURSIVE Orderings(_)
Orderings(A) ==
    IF A = {} THEN { << >> }
    ELSE UNION { { << << ip, items >> >> \o rest :
                     items \in Perms(ItemsOf(ip, A)),
                     rest \in Orderings({ x \in A : x.ip # ip }) }
                 : ip \in { a.ip : a \in A } }

RolesInit ==
    /\ adverts = {}
    /\ outcome = NotDecided

Advertise(ip, ws_name, ws_id) ==
    /\ outcome = NotDecided
    /\ Cardinality(adverts) < MaxEntries
    /\ \A a \in adverts : ~(a.ip = ip /\ a.ws_name = ws_name)
    /\ adverts' = adverts \cup { [ip |-> ip, ws_name |-> ws_name, ws_id |-> ws_id] }
    /\ UNCHANGED <<outcome, notRoles>>

Decide ==
    /\ outcome = NotDecided
    /\ \E responders \in Orderings(adverts) :
           outcome' = decide_roles(responders)
    /\ UNCHANGED <<adverts, notRoles>>

NextRoles ==
    \/ \E ip \in IPs, ws_name \in WsNames :
           \E ws_id \in {"", WsIdOf(ws_name)} : Advertise(ip, ws_name, ws_id)
    \/ Decide

(***************************************************************************)
(* Watchdog and reconcile (daemon.py, core.py).                            *)
(*                                                                         *)
(* Time is the monotonic clock in whole seconds.  A dict read with         *)
(* .get(k, 0.0) is a function read with Get(d, k, 0).  One pass of the     *)
(* supervisor loop over a paired record is one action: it loads the        *)
(* endpoints, fires the thumps, then watches each role in ROLES order.     *)
(* A pass comes in the same second as the one before or in the next one.   *)
(* ensure_app_flags and ensure_connected only send requests; the replies   *)
(* that mark an address as seen are the mark_seen action.  In one run the  *)
(* remote of one address is up and may answer or not; the others are down. *)
(* A workspace gets a new identifier each time its remote reopens it.      *)
(***************************************************************************)
HEARTBEAT_INTERVAL == 2
OFFLINE_AFTER == 8
RECONCILE_EVERY == 5
OFFLINE_BACKOFF_MIN == 2
OFFLINE_BACKOFF_MAX == 20
OFFLINE_BACKOFF_FACTOR == 2

MaxTime == 40
MaxReopen == 1
MaxListing == 2

PyNone == [py |-> "None"]

Get(d, k, default) == IF k \in DOMAIN d THEN d[k] ELSE default

Put(d, k, v) == (k :> v) @@ d

Min(a, b) == IF a < b THEN a ELSE b

Max(a, b) == IF a < b THEN b ELSE a

\* str.replace(old, ""): left to right, without overlap
RECURSIVE Replace(_, _)
Replace(s, old) ==
    IF Len(s) < Len(old) THEN s
    ELSE IF SubSeq(s, 1, Len(old)) = old
      THEN Replace(SubSeq(s, Len(old) + 1, Len(s)), old)
    ELSE << s[1] >> \o Replace(Tail(s), old)

QLAB5 == << ".", "q", "l", "a", "b", "5" >>
QLAB4 == << ".", "q", "l", "a", "b", "4" >>

\* parse_workspaces: base = name.replace(".qlab5", "").replace(".qlab4", "")
BaseName(name) == Replace(Replace(name, QLAB5), QLAB4)

RECURSIVE ParseItems(_, _, _)
ParseItems(data, i, out) ==
    IF i > Len(data) THEN out
    ELSE ParseItems(data, i + 1, Put(out, BaseName(data[i].name), data[i].uid))

\* parse_workspaces: {} unless status is "ok"; a later item replaces an
\* earlier one of the same base name
parse_workspaces(reply_json) ==
    IF reply_json.status # "ok" THEN << >>
    ELSE ParseItems(reply_json.data, 1, << >>)

\* Endpoint.online
online(ep, t) == ep.last_seen_mono > 0 /\ (t - ep.last_seen_mono) < OFFLINE_AFTER

\* load_paired_endpoints: one Endpoint per role of ROLES whose entry has an
\* address and an identifier
load_paired_endpoints(st) ==
    LET eps == Get(st, "endpoints", << >>)
    IN  [ role \in { r \in DOMAIN eps \cap RoleSet :
                        {"ip", "workspace_id"} \subseteq DOMAIN eps[r] } |->
            Endpoint(eps[role].ip, role,
                     Get(eps[role], "workspace_name", PyNone),
                     eps[role].workspace_id)
            @@ [last_seen_mono |-> 0] ]

\* _inject_last_seen: ep.last_seen_mono = max(ep.last_seen_mono, ts) if ts
_inject_last_seen(eps) ==
    [ role \in DOMAIN eps |->
        [eps[role] EXCEPT !.last_seen_mono =
            Max(@, Get(LAST_SEEN_BY_IP, eps[role].ip, 0))] ]

\* the last two of a list of times, with t added
LastTwo(times, t) ==
    IF Len(times) = 0 THEN << t >> ELSE << times[Len(times)], t >>

\* send_ws(ep.ip, ep.workspace_id, "thump") at time t: the times of the last
\* two thumps enqueued for the key
Enqueued(log, k, t) == Put(log, k, LastTwo(Get(log, k, << >>), t))

\* a thump is sent whatever the time of the last one
ThumpDueAlways(last, t) == TRUE

\* thump_fire: not (now - _last_thump_sent.get(k, 0.0)) < HEARTBEAT_INTERVAL
ThumpDue(last, t) == ~((t - last) < HEARTBEAT_INTERVAL)

\* thump_fire, on the state w threaded through a pass
thump_fire(w, ep, t) ==
    IF ep.workspace_id = "" THEN w
    ELSE LET k == << ep.ip, ep.workspace_id >>
         IN  IF ~ThumpDue(Get(w.last_thump_sent, k, 0), t) THEN w
             ELSE [w EXCEPT !.last_thump_sent = Put(@, k, t),
                            !.thumps = Enqueued(@, k, t)]

\* the gate lets every call through
OfflineGateOpen(next_try, t) == TRUE

\* offline_gate
offline_gate(next_try, t) == t >= next_try

\* bump_offline_backoff: the new value of the backoff
BumpedBackoff(cur) ==
    IF cur <= 0 THEN OFFLINE_BACKOFF_MIN
    ELSE Min(OFFLINE_BACKOFF_MAX, cur * OFFLINE_BACKOFF_FACTOR)

\* bump_offline_backoff
bump_offline_backoff(w, role, t) ==
    LET cur == BumpedBackoff(Get(w.offline_backoff, role, 0))
    IN  [w EXCEPT !.offline_backoff = Put(@, role, cur),
                  !.offline_next_try = Put(@, role, t + cur)]

\* the backoff is reset and next_try is left as it is
ResetBackoffOnly(w, role) ==
    [w EXCEPT !.offline_backoff = Put(@, role, 0)]

\* reset_offline_backoff
reset_offline_backoff(w, role) ==
    [w EXCEPT !.offline_backoff = Put(@, role, 0),
              !.offline_next_try = Put(@, role, 0)]

\* the entry of the role is replaced by the identifier and the name alone
StoreWsidAlone(st, role, desired, new_id) ==
    Put(st, "endpoints",
        Put(Get(st, "endpoints", << >>), role,
            [workspace_id |-> new_id, workspace_name |-> desired]))

\* reconcile_endpoint: st = STATE.load(); setdefault; the two assignments;
\* STATE.save(st)
StoreWsid(st, role, desired, new_id) ==
    Put(st, "endpoints",
        Put(Get(st, "endpoints", << >>), role,
            [workspace_id |-> new_id, workspace_name |-> desired]
            @@ Get(Get(st, "endpoints", << >>), role, << >>)))

\* request_workspaces(ep.ip) at time t: the time of the last request sent
\* for the role, whether a request followed its predecessor by less than
\* RECONCILE_EVERY, and whether one was sent before next_try
Asked(log, role, t, next_try) ==
    Put(log, role,
        [last |-> t,
         early |-> role \in DOMAIN log /\
                   (log[role].early \/ t - log[role].last < RECONCILE_EVERY),
         gated |-> (role \in DOMAIN log /\ log[role].gated) \/ t < next_try])

\* the identifiers under which a reply lists the workspace `name`
ListedUnder(r, name) ==
    IF r = PyNone \/ r.status # "ok" THEN {}
    ELSE { r.data[i].uid : i \in { j \in 1..Len(r.data) : BaseName(r.data[j].name) = name } }

\* a reconcile attempt of the role has failed once more, because of `why`
Failed(w, role, why) ==
    [w EXCEPT !.fails = Put(@, role, Get(@, role, 0) + 1),
              !.answered = Put(@, role, [outcome |-> why])]

\* the role was reconciled (why = "ok") or observed online (why = "online")
Cleared(w, role, why) ==
    [w EXCEPT !.fails = Put(@, role, 0),
              !.answered = Put(@, role, [outcome |-> why])]

\* the identifier the reply r makes the role expect in the record: the one
\* identifier, not empty and not the stored one, under which r lists the
\* workspace of the role; NoChange when there is no such identifier
NoChange == "no change"

Wanted(r, ep) ==
    LET listed == ListedUnder(r, ep.workspace_name)
    IN  IF Cardinality(listed) = 1 /\ listed \cap {"", ep.workspace_id} = {}
          THEN CHOOSE x \in listed : TRUE
        ELSE NoChange

\* request_workspaces returned r (None after the timeout); what
\* reconcile_endpoint makes of it: `not r`, and parse_workspaces(r)
Heard(r, ep) ==
    [none |-> r = PyNone,
     wsmap |-> IF r = PyNone THEN << >> ELSE parse_workspaces(r),
     want |-> Wanted(r, ep)]

\* reconcile_endpoint after its gates, with what it heard
Reconciled(w, role, ep, heard, t) ==
    LET wsmap == heard.wsmap
        desired == ep.workspace_name
    IN  IF heard.none
          THEN Failed(bump_offline_backoff(w, role, t), role, "no_reply")
        ELSE IF DOMAIN wsmap = {}
          THEN Failed(bump_offline_backoff(w, role, t), role, "unparseable")
        ELSE IF desired = PyNone \/ desired \notin DOMAIN wsmap
          THEN Failed(bump_offline_backoff(w, role, t), role, "name_absent")
        ELSE IF wsmap[desired] = ""
          THEN Failed(bump_offline_backoff(w, role, t), role, "empty_id")
        ELSE LET new_id == wsmap[desired]
                 w2 == IF new_id # ep.workspace_id
                         THEN [w EXCEPT !.st = StoreWsid(@, role, desired, new_id)]
                         ELSE w
             IN  Cleared(reset_offline_backoff(w2, role), role, "ok")

\* reconcile_endpoint
reconcile_endpoint(w, role, ep, heard, t) ==
    IF ~offline_gate(Get(w.offline_next_try, role, 0), t) THEN w
    ELSE IF (t - Get(w.last_reconcile, role, 0)) < RECONCILE_EVERY THEN w
    ELSE LET w1 == [w EXCEPT !.last_reconcile = Put(@, role, t),
                             !.asks = Asked(@, role, t, Get(w.offline_next_try, role, 0))]
             w2 == Reconciled(w1, role, ep, heard, t)
         IN  IF heard.want = NoChange THEN w2
             ELSE [w2 EXCEPT !.answered =
                      Put(@, role, [outcome |-> w2.answered[role].outcome,
                                    want |-> heard.want,
                                    before |-> Get(w.st, "endpoints", << >>),
                                    after |-> Get(w2.st, "endpoints", << >>)])]

\* run_daemon: for role in ROLES: if ep: thump_fire(ep)
RECURSIVE ThumpLoop(_, _, _, _)
ThumpLoop(w, eps, t, i) ==
    IF i > Len(ROLES) THEN w
    ELSE ThumpLoop(IF ROLES[i] \in DOMAIN eps THEN thump_fire(w, eps[ROLES[i]], t) ELSE w,
                   eps, t, i + 1)

\* run_daemon: the body of the second loop for one role
WatchRole(w, role, eps, heard, t) ==
    IF role \notin DOMAIN eps THEN w
    ELSE IF online(eps[role], t)
      THEN Cleared(reset_offline_backoff(w, role), role, "online")
    ELSE reconcile_endpoint(w, role, eps[role], heard, t)

\* run_daemon: for role in ROLES: reset_offline_backoff or reconcile_endpoint
RECURSIVE WatchLoop(_, _, _, _, _)
WatchLoop(w, eps, heard, t, i) ==
    IF i > Len(ROLES) THEN w
    ELSE WatchLoop(WatchRole(w, ROLES[i], eps, heard[ROLES[i]], t),
                   eps, heard, t, i + 1)

\* the identifiers a workspace has, one after the other
WsIds == << "idA", "idB", "idC" >>

OtherName == << "S", "o", "l", "o" >>

\* the workspaces a remote may list to a role expecting `desired`
Items(desired) ==
    { [name |-> desired \o QLAB5, uid |-> u] : u \in {WsIds[reopened + 1], ""} }
    \cup { [name |-> OtherName, uid |-> "idZ"] }

\* what request_workspaces may return: None, or the payload of a reply
Replies(desired) ==
    {PyNone, [status |-> "error", data |-> << >>]}
    \cup { [status |-> "ok", data |-> l] :
             l \in UNION { [1..n -> Items(desired)] : n \in 0..MaxListing } }

\* whether this pass sends a /workspaces request for the role
WillAsk(role, t) ==
    /\ role \in DOMAIN state.endpoints
    /\ ~online(_inject_last_seen(load_paired_endpoints(state))[role], t)
    /\ offline_gate(Get(_offline_next_try, role, 0), t)
    /\ ~((t - Get(_last_reconcile, role, 0)) < RECONCILE_EVERY)

HeardBy(role, t) ==
    IF WillAsk(role, t) /\ state.endpoints[role].ip \in reachable
      THEN { Heard(r, load_paired_endpoints(state)[role]) :
               r \in Replies(state.endpoints[role].workspace_name) }
    ELSE { Heard(PyNone, [workspace_name |-> PyNone, workspace_id |-> PyNone]) }

PairedRecord ==
    [paired |-> TRUE,
     endpoints |->
        [main |-> [ip |-> "10.0.0.1", workspace_name |-> EXPECTED_WS_MAIN,
                   workspace_id |-> WsIds[1]],
         backup |-> [ip |-> "10.0.0.2", workspace_name |-> EXPECTED_WS_BACKUP,
                     workspace_id |-> WsIds[1]]]]

WatchStart ==
    /\ now = 0
    /\ reachable = {"10.0.0.1"}
    /\ reopened = 0
    /\ state = PairedRecord
    /\ LAST_SEEN_BY_IP = << >>
    /\ _last_thump_sent = << >>
    /\ _last_reconcile = << >>
    /\ _offline_backoff = << >>
    /\ _offline_next_try = << >>
    /\ thumps = << >>
    /\ asks = << >>
    /\ fails = << >>
    /\ answered = << >>

\* the daemon starts its loop over a paired record
WatchBoot ==
    /\ now = 0
    /\ reachable \in { {ip} : ip \in IPs }
    /\ reopened = 0
    /\ state = PairedRecord
    /\ LAST_SEEN_BY_IP = << >>
    /\ _last_thump_sent = << >>
    /\ _last_reconcile = << >>
    /\ _offline_backoff = << >>
    /\ _offline_next_try = << >>
    /\ thumps = << >>
    /\ asks = << >>
    /\ fails = << >>
    /\ answered = << >>

\* mark_seen: a reply to a thump, a connect or a command came from ip
mark_seen(ip) ==
    /\ ip \in reachable
    /\ LAST_SEEN_BY_IP' = Put(LAST_SEEN_BY_IP, ip, now)
    /\ UNCHANGED <<now, reachable, reopened, state, _last_thump_sent, _last_reconcile,
                   _offline_backoff, _offline_next_try, thumps, asks, fails,
                   answered, notWatch>>

\* the remote reopens its workspace
reopen ==
    /\ reopened < MaxReopen
    /\ reopened' = reopened + 1
    /\ UNCHANGED <<now, reachable, state, LAST_SEEN_BY_IP, _last_thump_sent,
                   _last_reconcile, _offline_backoff, _offline_next_try,
                   thumps, asks, fails, answered, notWatch>>

PassGaps == {0, 1}

\* run_daemon: one pass of the loop over a paired record
supervise(dt) ==
    /\ state.paired
    /\ now + dt <= MaxTime
    /\ now' = now + dt
    /\ \E hm \in HeardBy("main", now + dt), hb \in HeardBy("backup", now + dt),
          ha \in HeardBy("aux", now + dt) :
         LET heard == [main |-> hm, backup |-> hb, aux |-> ha]
             eps == _inject_last_seen(load_paired_endpoints(state))
             w0 == [last_thump_sent |-> _last_thump_sent,
                    last_reconcile |-> _last_reconcile,
                    offline_backoff |-> _offline_backoff,
                    offline_next_try |-> _offline_next_try,
                    st |-> state, thumps |-> thumps, asks |-> asks,
                    fails |-> fails, answered |-> << >>]
             w1 == ThumpLoop(w0, eps, now + dt, 1)
         IN  \E w2 \in { WatchLoop(w1, eps, heard, now + dt, 1) } :
             /\ _last_thump_sent' = w2.last_thump_sent
             /\ _last_reconcile' = w2.last_reconcile
             /\ _offline_backoff' = w2.offline_backoff
             /\ _offline_next_try' = w2.offline_next_try
             /\ state' = w2.st
             /\ thumps' = w2.thumps
             /\ asks' = w2.asks
             /\ fails' = w2.fails
             /\ answered' = w2.answered
    /\ UNCHANGED <<reachable, reopened, LAST_SEEN_BY_IP, notWatch>>

NextWatch ==
    \/ \E ip \in IPs : mark_seen(ip)
    \/ reopen
    \/ \E dt \in PassGaps : supervise(dt)

(***************************************************************************)
(* run_pairing_auto (daemon.py): the pairing-active flag and its mutex.    *)
(*                                                                         *)
(* Each caller runs run_pairing_auto on a thread of its own: the thread    *)
(* started by a short press of the pair button, the one started by a long  *)
(* press, and the `pair` command.  They meet on one flag and one mutex.    *)
(***************************************************************************)
Callers == {"short", "held", "cli"}

PairOutcomes == {"ok", "ConflictError", "NoRespondersError", "Exception"}

\* the mutex excludes nobody
LockFreeAlways(owner) == TRUE

\* threading.Lock: acquire succeeds when no thread holds it
LockFree(owner) == owner = NoThread

\* the caller is between the set of the flag and its clear in `finally`
InSection(t) == pairPc[t] \in {"begin", "phase1", "phase2", "decide", "finally"}

PairStart ==
    /\ DISCOVERY_ACTIVE = FALSE
    /\ _DISCOVERY_LOCK = NoThread
    /\ pairPc = [t \in Callers |-> "idle"]
    /\ broadcasted = [t \in Callers |-> FALSE]
    /\ _PAIR_FATAL_FAIL = FALSE
    /\ _PAIR_CONFLICT = FALSE

\* threading.Thread(target=run_pairing_auto).start(), or the direct call
pair_call(t) ==
    /\ pairPc[t] \in {"idle", "returned"}
    /\ pairPc' = [pairPc EXCEPT ![t] = "lock"]
    /\ broadcasted' = [broadcasted EXCEPT ![t] = FALSE]
    /\ UNCHANGED <<DISCOVERY_ACTIVE, _DISCOVERY_LOCK, _PAIR_FATAL_FAIL,
                   _PAIR_CONFLICT, notPair>>

\* with _DISCOVERY_LOCK:
pair_lock(t) ==
    /\ pairPc[t] = "lock"
    /\ LockFree(_DISCOVERY_LOCK)
    /\ _DISCOVERY_LOCK' = t
    /\ pairPc' = [pairPc EXCEPT ![t] = "check"]
    /\ UNCHANGED <<DISCOVERY_ACTIVE, broadcasted, _PAIR_FATAL_FAIL,
                   _PAIR_CONFLICT, notPair>>

\* if DISCOVERY_ACTIVE: return (the lock is released on the way out)
pair_check(t) ==
    /\ pairPc[t] = "check"
    /\ IF DISCOVERY_ACTIVE
         THEN /\ pairPc' = [pairPc EXCEPT ![t] = "returned"]
              /\ _DISCOVERY_LOCK' = IF _DISCOVERY_LOCK = t THEN NoThread
                                    ELSE _DISCOVERY_LOCK
         ELSE /\ pairPc' = [pairPc EXCEPT ![t] = "set"]
              /\ UNCHANGED _DISCOVERY_LOCK
    /\ UNCHANGED <<DISCOVERY_ACTIVE, broadcasted, _PAIR_FATAL_FAIL,
                   _PAIR_CONFLICT, notPair>>

\* DISCOVERY_ACTIVE = True, and the lock is released
pair_set(t) ==
    /\ pairPc[t] = "set"
    /\ DISCOVERY_ACTIVE' = TRUE
    /\ _DISCOVERY_LOCK' = IF _DISCOVERY_LOCK = t THEN NoThread ELSE _DISCOVERY_LOCK
    /\ pairPc' = [pairPc EXCEPT ![t] = "begin"]
    /\ UNCHANGED <<broadcasted, _PAIR_FATAL_FAIL, _PAIR_CONFLICT, notPair>>

\* _PAIR_FATAL_FAIL = False; _PAIR_CONFLICT = False; set_led_discovery()
pair_begin(t) ==
    /\ pairPc[t] = "begin"
    /\ _PAIR_FATAL_FAIL' = FALSE
    /\ _PAIR_CONFLICT' = FALSE
    /\ pairPc' = [pairPc EXCEPT ![t] = "phase1"]
    /\ UNCHANGED <<DISCOVERY_ACTIVE, _DISCOVERY_LOCK, broadcasted, notPair>>

\* pair_auto -> discover_by_broadcast: the broadcast of phase 1 and its wait
pair_phase1(t) ==
    /\ pairPc[t] = "phase1"
    /\ broadcasted' = [broadcasted EXCEPT ![t] = TRUE]
    /\ pairPc' = [pairPc EXCEPT ![t] = "phase2"]
    /\ UNCHANGED <<DISCOVERY_ACTIVE, _DISCOVERY_LOCK, _PAIR_FATAL_FAIL,
                   _PAIR_CONFLICT, notPair>>

\* discover_by_broadcast: the broadcasts of phase 2 and their wait
pair_phase2(t) ==
    /\ pairPc[t] = "phase2"
    /\ pairPc' = [pairPc EXCEPT ![t] = "decide"]
    /\ UNCHANGED <<DISCOVERY_ACTIVE, _DISCOVERY_LOCK, broadcasted,
                   _PAIR_FATAL_FAIL, _PAIR_CONFLICT, notPair>>

\* pair_auto returns or raises; the except clauses set the failure flags
pair_decide(t, result) ==
    /\ pairPc[t] = "decide"
    /\ _PAIR_CONFLICT' = IF result = "ConflictError" THEN TRUE ELSE _PAIR_CONFLICT
    /\ _PAIR_FATAL_FAIL' = IF result \in {"NoRespondersError", "Exception"}
                             THEN TRUE ELSE _PAIR_FATAL_FAIL
    /\ pairPc' = [pairPc EXCEPT ![t] = "finally"]
    /\ UNCHANGED <<DISCOVERY_ACTIVE, _DISCOVERY_LOCK, broadcasted, notPair>>

\* finally: with _DISCOVERY_LOCK: DISCOVERY_ACTIVE = False
pair_finally(t) ==
    /\ pairPc[t] = "finally"
    /\ LockFree(_DISCOVERY_LOCK)
    /\ DISCOVERY_ACTIVE' = FALSE
    /\ pairPc' = [pairPc EXCEPT ![t] = "idle"]
    /\ UNCHANGED <<_DISCOVERY_LOCK, broadcasted, _PAIR_FATAL_FAIL,
                   _PAIR_CONFLICT, notPair>>

NextPair ==
    \/ \E t \in Callers : pair_call(t)
    \/ \E t \in Callers : pair_lock(t)
    \/ \E t \in Callers : pair_check(t)
    \/ \E t \in Callers : pair_set(t)
    \/ \E t \in Callers : pair_begin(t)
    \/ \E t \in Callers : pair_phase1(t)
    \/ \E t \in Callers : pair_phase2(t)
    \/ \E t \in Callers, result \in PairOutcomes : pair_decide(t, result)
    \/ \E t \in Callers : pair_finally(t)

(***************************************************************************)
(* SendWorker (core.py): one bounded queue, one worker thread.             *)
(*                                                                         *)
(* A message is (ip, path, arg); the model tags it with the thread that    *)
(* enqueued it and that thread's running count, so that the order in which *)
(* messages reach the UDP client can be compared with the order in which   *)
(* they were enqueued.  The queue of the program holds 1000 messages       *)
(* (queue.Queue(maxsize=1000)); the model runs it with QueueCap places.    *)
(***************************************************************************)
QueueCap == 2
MaxSends == 2

SendCallers == {"supervisor", "button"}

SendPaths == {"/thump", "/go"}

NoPut == [result |-> "none"]

\* the queue never reports Full
QueueFullNever(queue) == FALSE

\* queue.Queue.full(): maxsize places are taken
QueueFull(queue) == Len(queue) >= QueueCap

\* the worker takes the newest message
QueueGetLast(queue) ==
    [item |-> queue[Len(queue)], rest |-> SubSeq(queue, 1, Len(queue) - 1)]

\* queue.Queue.get(): the oldest message leaves the queue
QueueGet(queue) == [item |-> Head(queue), rest |-> Tail(queue)]

SendStart ==
    /\ q = << >>
    /\ handed = << >>
    /\ sent = [c \in SendCallers |-> 0]
    /\ put = NoPut
    /\ alive = TRUE
    /\ raisedOn = {}

\* SendWorker.send: put_nowait; on queue.Full the message is dropped with a
\* warning and the call returns
SendWorker_send(c, ip, path) ==
    /\ sent[c] < MaxSends
    /\ sent' = [sent EXCEPT ![c] = @ + 1]
    /\ LET msg == [ip |-> ip, path |-> path, by |-> c, n |-> sent[c] + 1]
       IN  IF QueueFull(q)
             THEN /\ q' = q
                  /\ put' = [result |-> "dropped", msg |-> msg, before |-> q, after |-> q]
             ELSE /\ q' = Append(q, msg)
                  /\ put' = [result |-> "queued", msg |-> msg, before |-> q,
                             after |-> Append(q, msg)]
    /\ UNCHANGED <<handed, alive, raisedOn, notSend>>

\* an exception of send_message ends the thread
CaughtNever(raised) == ~raised

\* SendWorker.run: `except Exception` around send_message; the loop goes on
\* whether send_message raised or not
Caught(raised) == TRUE

\* SendWorker.run, one iteration with a message waiting: q.get, then
\* get_client(ip).send_message(path, arg), which may raise, then task_done
SendWorker_run ==
    /\ alive
    /\ q # << >>
    /\ \E raised \in BOOLEAN :
         LET got == QueueGet(q)
         IN  /\ q' = got.rest
             /\ handed' = Append(handed, got.item)
             /\ raisedOn' = IF raised THEN raisedOn \cup {got.item} ELSE raisedOn
             /\ alive' = Caught(raised)
    /\ UNCHANGED <<sent, put, notSend>>

NextSend ==
    \/ \E c \in SendCallers, ip \in IPs, path \in SendPaths : SendWorker_send(c, ip, path)
    \/ SendWorker_run

(***************************************************************************)
(* The LEDs (daemon.py): LEDWorker, the supervisor's colour selection and  *)
(* the acknowledgement callback.                                           *)
(*                                                                         *)
(* Times are in hundredths of a second.  A colour is <<red, green, blue>>. *)
(***************************************************************************)
MASTER_DIM == 18
BLINK_TOGGLE_SLOW == 100
BLINK_TOGGLE_FAST == 25
BLINK_TOGGLE_NORM == 50
ACK_FLASH_SEC == 25
ACK_RETURN_FADE_SEC == 25
MIN_TOGGLE == 5
RENDER_SLEEP == 2

MaxLedTime == 80
MaxAcks == 2

C_OFF == << 0, 0, 0 >>
C_BLUE == << 0, 0, 255 >>
C_GREEN == << 0, 255, 0 >>
C_RED == << 255, 0, 0 >>
C_VIOLET == << 255, 0, 255 >>

\* dim: f = max(0.0, min(1.0, MASTER_DIM)); int(c[i] * f)
dim(c) ==
    LET f == Max(0, Min(100, MASTER_DIM))
    IN  << (c[1] * f) \div 100, (c[2] * f) \div 100, (c[3] * f) \div 100 >>

\* the record save_paired_state writes for `assigned`, with the pause flag
\* of the record `old` it replaces
save_paired_state(assigned, old) ==
    [paired |-> TRUE,
     endpoints |->
        [role \in DOMAIN assigned |->
            [ip |-> assigned[role].ip,
             workspace_name |-> assigned[role].workspace_name,
             workspace_id |-> assigned[role].workspace_id]],
     paused |-> Get(old, "paused", FALSE)]

\* refresh_role_map_from_state: the loop over ROLES; a later role replaces an
\* earlier one at the same address
RECURSIVE RoleMapFrom(_, _, _)
RoleMapFrom(eps, i, mapping) ==
    IF i > Len(ROLES) THEN mapping
    ELSE LET role == ROLES[i]
         IN  RoleMapFrom(eps, i + 1,
                 IF role \in DOMAIN eps /\ "ip" \in DOMAIN eps[role] /\ eps[role].ip # ""
                   THEN Put(mapping, eps[role].ip, role)
                   ELSE mapping)

refresh_role_map_from_state(st) == RoleMapFrom(Get(st, "endpoints", << >>), 1, << >>)

\* role_from_ip: ROLE_BY_IP.get(ip); "" stands for None (both are falsy)
role_from_ip(ip) == Get(ROLE_BY_IP, ip, "")

\* LEDWorker.set_state
set_state(led, role, steady_rgb, blink, toggle_sec) ==
    [led EXCEPT !.steady[role] = steady_rgb,
                !.blink[role] = blink,
                !.toggle[role] = Max(MIN_TOGGLE, toggle_sec)]

RECURSIVE SetAll(_, _, _, _, _)
SetAll(led, i, steady_rgb, blink, toggle_sec) ==
    IF i > Len(ROLES) THEN led
    ELSE SetAll(set_state(led, ROLES[i], steady_rgb, blink, toggle_sec), i + 1,
                steady_rgb, blink, toggle_sec)

set_led_never_paired(led) == SetAll(led, 1, dim(C_BLUE), TRUE, BLINK_TOGGLE_SLOW)

set_led_discovery(led) == SetAll(led, 1, dim(C_BLUE), TRUE, BLINK_TOGGLE_FAST)

set_led_fatal_fail(led) == SetAll(led, 1, dim(C_RED), FALSE, BLINK_TOGGLE_NORM)

set_led_conflict(led) == SetAll(led, 1, dim(C_VIOLET), FALSE, BLINK_TOGGLE_NORM)

\* a role that is online is green whatever its repair window says
RoleStateOnlineFirst(led, role, present, is_online, t) ==
    LET mismatch_until == Get(_HEAL_MISMATCH_UNTIL, role, 0)
        until == Get(_MISSING_UNTIL, role, 0)
    IN  IF present /\ is_online
          THEN set_state(led, role, dim(C_GREEN), FALSE, BLINK_TOGGLE_NORM)
        ELSE IF mismatch_until # 0 /\ t < mismatch_until
          THEN set_state(led, role, dim(C_RED), FALSE, BLINK_TOGGLE_NORM)
        ELSE IF ~present
          THEN IF until # 0 /\ t < until
                 THEN set_state(led, role, dim(C_RED), FALSE, BLINK_TOGGLE_NORM)
                 ELSE set_state(led, role, dim(C_OFF), FALSE, BLINK_TOGGLE_NORM)
        ELSE set_state(led, role, dim(C_RED), TRUE, BLINK_TOGGLE_NORM)

\* set_led_role_state at time t
set_led_role_state(led, role, present, is_online, t) ==
    LET mismatch_until == Get(_HEAL_MISMATCH_UNTIL, role, 0)
        until == Get(_MISSING_UNTIL, role, 0)
    IN  IF mismatch_until # 0 /\ t < mismatch_until
          THEN set_state(led, role, dim(C_RED), FALSE, BLINK_TOGGLE_NORM)
        ELSE IF ~present
          THEN IF until # 0 /\ t < until
                 THEN set_state(led, role, dim(C_RED), FALSE, BLINK_TOGGLE_NORM)
                 ELSE set_state(led, role, dim(C_OFF), FALSE, BLINK_TOGGLE_NORM)
        ELSE IF is_online
          THEN set_state(led, role, dim(C_GREEN), FALSE, BLINK_TOGGLE_NORM)
        ELSE set_state(led, role, dim(C_RED), TRUE, BLINK_TOGGLE_NORM)

\* Endpoint.online for the endpoint of a role, with the last-seen time that
\* _inject_last_seen gives it
OnlineAt(eps, role, t) ==
    /\ role \in DOMAIN eps
    /\ LET seen == Get(seenCs, eps[role].ip, 0)
       IN  seen > 0 /\ (t - seen) < OFFLINE_AFTER * 100

RECURSIVE RoleStates(_, _, _, _)
RoleStates(led, eps, i, t) ==
    IF i > Len(ROLES) THEN led
    ELSE RoleStates(
             set_led_role_state(led, ROLES[i], ROLES[i] \in DOMAIN eps,
                                OnlineAt(eps, ROLES[i], t), t),
             eps, i + 1, t)

\* the pairing-active flag wins over the failure flags
LedChoiceDiscoveryFirst(led, conflict, fatal, discovery, st, t) ==
    IF discovery THEN set_led_discovery(led)
    ELSE IF conflict THEN set_led_conflict(led)
    ELSE IF fatal THEN set_led_fatal_fail(led)
    ELSE IF ~Get(st, "paired", FALSE) THEN set_led_never_paired(led)
    ELSE RoleStates(led, load_paired_endpoints(st), 1, t)

\* run_daemon: the if / elif chain that picks the LED states
LedChoice(led, conflict, fatal, discovery, st, t) ==
    IF conflict THEN set_led_conflict(led)
    ELSE IF fatal THEN set_led_fatal_fail(led)
    ELSE IF discovery THEN set_led_discovery(led)
    ELSE IF ~Get(st, "paired", FALSE) THEN set_led_never_paired(led)
    ELSE RoleStates(led, load_paired_endpoints(st), 1, t)

\* the blink is always in its lit half
BlinkOnAlways(t, toggle_sec) == TRUE

\* LEDWorker._blink_on: (int(now / toggle_sec) % 2) == 0
_blink_on(t, toggle_sec) == ((t \div toggle_sec) % 2) = 0

\* LEDWorker._lerp_rgb with t = dt / ACK_RETURN_FADE_SEC, clamped to [0, 1]
_lerp_rgb(a, b, dt) ==
    LET tt == Max(0, Min(ACK_RETURN_FADE_SEC, dt))
    IN  [ i \in 1..3 |->
            (a[i] * ACK_RETURN_FADE_SEC + (b[i] - a[i]) * tt) \div ACK_RETURN_FADE_SEC ]

\* the end of a flash arms no fade
FadeArmedNever(was_active) == FALSE

\* LEDWorker.run: `if self._flash_active.get(role, False)` once the flash
\* window has passed
FadeArmed(was_active) == was_active

\* LEDWorker.run, the body of the loop for one role at time t
RenderRole(role, t) ==
    IF t < _flash_until[role]
      THEN [flash_active |-> TRUE,
            fade_start |-> _fade_start[role],
            fade_from |-> _fade_from[role],
            color |-> dim(C_BLUE),
            phase |-> "flash"]
      ELSE
      LET armed == FadeArmed(_flash_active[role])
          fade_t0 == IF armed THEN t ELSE _fade_start[role]
          start == IF armed THEN _last_rendered[role] ELSE _fade_from[role]
          target == IF _blink[role] /\ ~_blink_on(t, _toggle[role])
                      THEN dim(C_OFF) ELSE _steady[role]
      IN  IF fade_t0 > 0 /\ (t - fade_t0) < ACK_RETURN_FADE_SEC
            THEN [flash_active |-> FALSE, fade_start |-> fade_t0, fade_from |-> start,
                  color |-> _lerp_rgb(start, target, t - fade_t0), phase |-> "fade"]
            ELSE [flash_active |-> FALSE, fade_start |-> 0, fade_from |-> start,
                  color |-> target, phase |-> "steady"]

NotRendered == [phase |-> "none"]

NotTicked == [read |-> FALSE]

NotAcked == [heard |-> FALSE]

LedStart ==
    /\ monoCs = 1
    /\ _steady = [r \in RoleSet |-> dim(C_OFF)]
    /\ _blink = [r \in RoleSet |-> FALSE]
    /\ _toggle = [r \in RoleSet |-> BLINK_TOGGLE_NORM]
    /\ _flash_until = [r \in RoleSet |-> 0]
    /\ _fade_start = [r \in RoleSet |-> 0]
    /\ _fade_from = [r \in RoleSet |-> dim(C_OFF)]
    /\ _last_rendered = [r \in RoleSet |-> dim(C_OFF)]
    /\ _flash_active = [r \in RoleSet |-> FALSE]
    /\ ROLE_BY_IP = << >>
    /\ seenCs = << >>
    /\ rendered = [r \in RoleSet |-> NotRendered]
    /\ ticked = NotTicked
    /\ acked = NotAcked
    /\ ackCount = 0

\* what the responders answered in the pairing that wrote the record: one
\* host with the primary workspace alone, one host per workspace, or one
\* host with both workspaces
SoloInput == << << "10.0.0.1", << << EXPECTED_WS_MAIN, "idA" >> >> >> >>

LedInputs ==
    { SoloInput,
      << << "10.0.0.1", << << EXPECTED_WS_MAIN, "idA" >> >> >>,
         << "10.0.0.2", << << EXPECTED_WS_BACKUP, "idB" >> >> >> >>,
      << << "10.0.0.1", << << EXPECTED_WS_MAIN, "idA" >>,
                           << EXPECTED_WS_BACKUP, "idB" >> >> >> >> }

\* the records the daemon can find: none, or one written by pair_auto
RecordsOf(inputs) ==
    { << >> } \cup { save_paired_state(decide_roles(input).assigned, << >>) : input \in inputs }

\* the daemon with one of the given records
LedBoot(records) ==
    /\ monoCs = 1
    /\ state \in records
    /\ ROLE_BY_IP = refresh_role_map_from_state(state)
    /\ _steady = [r \in RoleSet |-> dim(C_OFF)]
    /\ _blink = [r \in RoleSet |-> FALSE]
    /\ _toggle = [r \in RoleSet |-> BLINK_TOGGLE_NORM]
    /\ _flash_until = [r \in RoleSet |-> 0]
    /\ _fade_start = [r \in RoleSet |-> 0]
    /\ _fade_from = [r \in RoleSet |-> dim(C_OFF)]
    /\ _last_rendered = [r \in RoleSet |-> dim(C_OFF)]
    /\ _flash_active = [r \in RoleSet |-> FALSE]
    /\ seenCs = << >>
    /\ rendered = [r \in RoleSet |-> NotRendered]
    /\ ticked = NotTicked
    /\ acked = NotAcked
    /\ ackCount = 0
    /\ now = 0
    /\ reachable = {"10.0.0.1"}
    /\ reopened = 0
    /\ LAST_SEEN_BY_IP = << >>
    /\ _last_thump_sent = << >>
    /\ _last_reconcile = << >>
    /\ _offline_backoff = << >>
    /\ _offline_next_try = << >>
    /\ thumps = << >>
    /\ asks = << >>
    /\ fails = << >>
    /\ answered = << >>

\* LEDWorker.run, one iteration dt after the last: now = qc.mono(), then every
\* role is rendered
LEDWorker_run(dt) ==
    /\ monoCs + dt <= MaxLedTime
    /\ monoCs' = monoCs + dt
    /\ LET t == monoCs + dt
           out == [r \in RoleSet |-> RenderRole(r, t)]
       IN  /\ _flash_active' = [r \in RoleSet |-> out[r].flash_active]
           /\ _fade_start' = [r \in RoleSet |-> out[r].fade_start]
           /\ _fade_from' = [r \in RoleSet |-> out[r].fade_from]
           /\ _last_rendered' = [r \in RoleSet |-> out[r].color]
           /\ rendered' =
                [r \in RoleSet |->
                    [phase |-> out[r].phase,
                     prev |-> rendered[r].phase,
                     at |-> t,
                     until |-> _flash_until[r],
                     color |-> out[r].color,
                     before |-> _last_rendered[r],
                     steady |-> _steady[r],
                     blink |-> _blink[r],
                     toggle |-> _toggle[r],
                     fade_was |-> _fade_start[r],
                     fade_start |-> out[r].fade_start,
                     fade_from |-> out[r].fade_from]]
    /\ UNCHANGED <<_steady, _blink, _toggle, _flash_until, ROLE_BY_IP, seenCs, ticked,
                   acked, ackCount, notLed>>

\* run_daemon, the LED part of one iteration: the record is loaded, the role
\* map refreshed, and the states of the three pixels are set
led_tick ==
    LET st == state
        led == [steady |-> _steady, blink |-> _blink, toggle |-> _toggle]
        out == LedChoice(led, _PAIR_CONFLICT, _PAIR_FATAL_FAIL, DISCOVERY_ACTIVE, st, monoCs)
    IN  /\ ROLE_BY_IP' = refresh_role_map_from_state(st)
        /\ _steady' = out.steady
        /\ _blink' = out.blink
        /\ _toggle' = out.toggle
        /\ ticked' = [read |-> TRUE,
                      conflict |-> _PAIR_CONFLICT,
                      fatal |-> _PAIR_FATAL_FAIL,
                      discovery |-> DISCOVERY_ACTIVE,
                      paired |-> Get(st, "paired", FALSE)]
        /\ UNCHANGED <<monoCs, _flash_until, _fade_start, _fade_from, _last_rendered,
                       _flash_active, seenCs, rendered, acked, ackCount, notLed>>

\* _osc_handler for a reply with status ok to a cue action (go, panic, stop,
\* pause, resume, select/next, select/previous), sent by the workspace of
\* `from` at its address: mark_seen, role_from_ip, then on_ack ->
\* LEDW.flash_ack(role, ACK_FLASH_SEC)
osc_cue_reply(from) ==
    /\ ackCount < MaxAcks
    /\ Get(state, "paired", FALSE)
    /\ from \in DOMAIN state.endpoints
    /\ LET src_ip == state.endpoints[from].ip
           r == role_from_ip(src_ip)
       IN  /\ seenCs' = Put(seenCs, src_ip, monoCs)
           /\ _flash_until' = IF r # ""
                                THEN [_flash_until EXCEPT ![r] = monoCs + ACK_FLASH_SEC]
                                ELSE _flash_until
           /\ acked' = [heard |-> TRUE,
                        ip |-> src_ip,
                        workspace_id |-> state.endpoints[from].workspace_id,
                        from |-> from,
                        flashed |-> IF r # "" THEN {r} ELSE {}]
    /\ ackCount' = ackCount + 1
    /\ UNCHANGED <<monoCs, _steady, _blink, _toggle, _fade_start, _fade_from,
                   _last_rendered, _flash_active, ROLE_BY_IP, rendered, ticked, notLed>>

RenderGaps == {RENDER_SLEEP, 3 * RENDER_SLEEP}

\* the renderer, the supervisor's selection and acknowledgements, on a clock
NextLed ==
    \/ \E dt \in RenderGaps : LEDWorker_run(dt)
    \/ led_tick
    \/ \E from \in RoleSet : osc_cue_reply(from)

LedPairResults == {"ConflictError", "NoRespondersError"}

\* the supervisor's selection while one thread runs run_pairing_auto to a
\* failure
NextLedSelect ==
    \/ led_tick
    \/ \E from \in RoleSet : osc_cue_reply(from)
    \/ pair_call("short")
    \/ pair_lock("short")
    \/ pair_check("short")
    \/ pair_set("short")
    \/ pair_begin("short")
    \/ pair_phase1("short")
    \/ pair_phase2("short")
    \/ \E result \in LedPairResults : pair_decide("short", result)
    \/ pair_finally("short")

(***************************************************************************)
(* The persisted record and the threads that write it (daemon.py, core.py, *)
(* discover.py).                                                           *)
(*                                                                         *)
(* `state` is what STATE.load() returns.  Its writers are pair_auto (on a  *)
(* thread started by a short or a long press of the pair button),          *)
(* force_unpair_state (the long press), pause_toggle (the pause button),   *)
(* heal_reconcile_strict (a short press over a paired record) and the      *)
(* supervisor's reconcile_endpoint.  A thread that waits for the network   *)
(* is cut at the wait: the other threads run in between.  A record is a    *)
(* value here; a thread's local st is the value it loaded.                 *)
(***************************************************************************)
MISSING_RED_SEC == 1000
HEAL_MISMATCH_SEC == 300
HEAL_FLASH_SEC == 15

MaxPresses == 2
MaxTicks == 1
BootTime == 10

RecCallers == {"short", "held"}

NotStarted == [start |-> << >>, dirty |-> FALSE]

NotEnded == [result |-> "none"]

NotHealed == [happened |-> FALSE]

NotHeld == [fired |-> FALSE]

\* what discover_by_broadcast may return: nobody, the primary and the backup
\* workspace on a host each, the primary workspace alone on the second host,
\* or the primary workspace on both hosts
TwoHostInput ==
    << << "10.0.0.1", << << EXPECTED_WS_MAIN, "idA" >> >> >>,
       << "10.0.0.2", << << EXPECTED_WS_BACKUP, "idB" >> >> >> >>

MovedInput == << << "10.0.0.2", << << EXPECTED_WS_MAIN, "idC" >> >> >> >>

TwoMainsInput ==
    << << "10.0.0.1", << << EXPECTED_WS_MAIN, "idA" >> >> >>,
       << "10.0.0.2", << << EXPECTED_WS_MAIN, "idC" >> >> >> >>

RecInputs == { << >>, TwoHostInput, MovedInput, TwoMainsInput }

\* the record stays as it is
ForceUnpairNothing(st) == st

\* the endpoints and the pause flag are popped, the paired flag stays
ForceUnpairKeepsPaired(st) ==
    [k \in DOMAIN st \ {"endpoints", "paused"} |-> st[k]]

\* force_unpair_state: st.pop("paired"), st.pop("endpoints"), st.pop("paused")
force_unpair_state(st) ==
    [k \in DOMAIN st \ {"paired", "endpoints", "paused"} |-> st[k]]

\* _mark_incomplete_roles at time t
_mark_incomplete_roles(assigned, t) ==
    ("backup" :> IF "backup" \notin DOMAIN assigned THEN t + MISSING_RED_SEC ELSE 0)
    @@ ("aux" :> IF "aux" \notin DOMAIN assigned THEN t + MISSING_RED_SEC ELSE 0)

\* save_paired_state is reached whatever decide_roles did
ReachesAlways(kind) == TRUE

\* pair_auto: save_paired_state is the statement after decide_roles and the
\* connects; an exception raised before it leaves it unreached
Reaches(kind) == kind = "ok"

\* another thread has saved the record: every running pairing thread's
\* start record is no longer the last one written
Dirty(rs) == [u \in DOMAIN rs |-> [rs[u] EXCEPT !.dirty = TRUE]]

RoleIdx(role) == CHOOSE i \in DOMAIN ROLES : ROLES[i] = role

\* heal_reconcile_strict: the next role from ROLES[i] on that passes
\* `if not ep or not ep.workspace_id or not ep.workspace_name: continue`
RECURSIVE HealNext(_, _)
HealNext(eps, i) ==
    IF i > Len(ROLES) THEN "idle"
    ELSE IF /\ ROLES[i] \in DOMAIN eps
            /\ eps[ROLES[i]].workspace_id # ""
            /\ eps[ROLES[i]].workspace_name # PyNone
            /\ eps[ROLES[i]].workspace_name # << >>
      THEN ROLES[i]
    ELSE HealNext(eps, i + 1)

\* run_daemon: the next role from ROLES[i] on that passes `if not ep: continue`
RECURSIVE SupNext(_, _)
SupNext(eps, i) ==
    IF i > Len(ROLES) THEN "leds"
    ELSE IF ROLES[i] \in DOMAIN eps THEN ROLES[i]
    ELSE SupNext(eps, i + 1)

\* what request_workspaces(ep.ip) may return to a thread that repairs ep:
\* nothing, the workspace under its stored identifier, or the workspace
\* under a new identifier
RecReplies(ep) ==
    { PyNone,
      [status |-> "ok", data |-> << [name |-> ep.workspace_name \o QLAB5,
                                     uid |-> ep.workspace_id] >>],
      [status |-> "ok", data |-> << [name |-> ep.workspace_name \o QLAB5,
                                     uid |-> "idN"] >>] }

RecStart ==
    /\ _HEAL_MISMATCH_UNTIL = [r \in RoleSet |-> 0]
    /\ _MISSING_UNTIL = ("backup" :> 0) @@ ("aux" :> 0)
    /\ RESTART_EVENT = FALSE
    /\ healPc = "idle"
    /\ healSt = << >>
    /\ healEps = << >>
    /\ supPc = "top"
    /\ supEps = << >>
    /\ pausePc = "idle"
    /\ presses = 0
    /\ ticks = 0
    /\ runs = [t \in RecCallers |-> NotStarted]
    /\ ended = [t \in RecCallers |-> NotEnded]
    /\ healWrote = NotHealed
    /\ held = NotHeld

\* run_daemon up to its loop: the record is purged (STARTUP_FORCE_UNPAIR) or
\* the one a pairing wrote before; the role map is refreshed from it
RecBoot ==
    /\ monoCs = BootTime * 100
    /\ now = BootTime
    /\ state \in RecordsOf({TwoHostInput})
    /\ ROLE_BY_IP = refresh_role_map_from_state(state)
    /\ _steady = [r \in RoleSet |-> dim(C_OFF)]
    /\ _blink = [r \in RoleSet |-> FALSE]
    /\ _toggle = [r \in RoleSet |-> BLINK_TOGGLE_NORM]
    /\ _flash_until = [r \in RoleSet |-> 0]
    /\ _fade_start = [r \in RoleSet |-> 0]
    /\ _fade_from = [r \in RoleSet |-> dim(C_OFF)]
    /\ _last_rendered = [r \in RoleSet |-> dim(C_OFF)]
    /\ _flash_active = [r \in RoleSet |-> FALSE]
    /\ seenCs = << >>
    /\ rendered = [r \in RoleSet |-> NotRendered]
    /\ ticked = NotTicked
    /\ acked = NotAcked
    /\ ackCount = 0
    /\ reachable = IPs
    /\ reopened = 0
    /\ LAST_SEEN_BY_IP = << >>
    /\ _last_thump_sent = << >>
    /\ _last_reconcile = << >>
    /\ _offline_backoff = << >>
    /\ _offline_next_try = << >>
    /\ thumps = << >>
    /\ asks = << >>
    /\ fails = << >>
    /\ answered = << >>

\* what the threads of this section leave alone
recClock == <<now, reachable, reopened, LAST_SEEN_BY_IP, monoCs, seenCs>>

recBook ==
    <<_last_thump_sent, _last_reconcile, _offline_backoff, _offline_next_try,
      thumps, asks, fails, answered>>

recRender ==
    <<_fade_start, _fade_from, _last_rendered, _flash_active, rendered, ticked,
      acked, ackCount>>

recLeds == <<_steady, _blink, _toggle>>

recOther ==
    <<rolesVars, storeVars, sendVars, inputVars, clsVars, oscVars, discVars, connVars, recClock, recRender,
      RESTART_EVENT>>

recSup == <<supPc, supEps, ticks>>

recPairing == <<DISCOVERY_ACTIVE, _DISCOVERY_LOCK, pairPc, broadcasted>>

recFlags == <<_PAIR_FATAL_FAIL, _PAIR_CONFLICT>>

recHeal == <<healPc, healSt, healEps, healWrote, _HEAL_MISMATCH_UNTIL>>


\* do_pair_held: the pair button was held PAIR_HOLD_RESTART_SEC;
\* force_unpair_state(), then a thread is started on run_pairing_auto
do_pair_held ==
    /\ presses < MaxPresses
    /\ pairPc["held"] \in {"idle", "returned"}
    /\ presses' = presses + 1
    /\ LET st == force_unpair_state(state)
       IN  /\ state' = st
           /\ ROLE_BY_IP' = refresh_role_map_from_state(st)
           /\ held' = [fired |-> TRUE, before |-> state, record |-> st,
                       target |-> "run_pairing_auto"]
           /\ runs' = [Dirty(runs) EXCEPT !["held"] = [start |-> st, dirty |-> FALSE]]
    /\ _PAIR_FATAL_FAIL' = FALSE
    /\ _PAIR_CONFLICT' = FALSE
    /\ _MISSING_UNTIL' = [_MISSING_UNTIL EXCEPT !["backup"] = 0, !["aux"] = 0]
    /\ pairPc' = [pairPc EXCEPT !["held"] = "lock"]
    /\ broadcasted' = [broadcasted EXCEPT !["held"] = FALSE]
    /\ UNCHANGED <<DISCOVERY_ACTIVE, _DISCOVERY_LOCK, recOther, recBook, recLeds,
                   _flash_until, recHeal, recSup, pausePc, ended>>

\* the `unpair` command (launch.py, daemon.main): force_unpair_state() in a
\* process of its own, over the same backing file; the daemon's flags, role
\* map and missing-role marks are not that process's
unpair_command ==
    /\ presses < MaxPresses
    /\ presses' = presses + 1
    /\ state' = force_unpair_state(state)
    /\ runs' = Dirty(runs)
    /\ UNCHANGED <<recPairing, recFlags, recOther, recBook, recLeds, _flash_until,
                   ROLE_BY_IP, recHeal, _MISSING_UNTIL, recSup, pausePc, ended,
                   held>>

\* do_pair_released after a short press: heal_reconcile_strict over a paired
\* record, run_pairing_auto otherwise, each on a thread of its own
do_pair_released ==
    /\ presses < MaxPresses
    /\ presses' = presses + 1
    /\ IF Get(state, "paired", FALSE)
         THEN /\ healPc = "idle"
              /\ healPc' = "load"
              /\ UNCHANGED <<pairPc, broadcasted, runs>>
         ELSE /\ pairPc["short"] \in {"idle", "returned"}
              /\ pairPc' = [pairPc EXCEPT !["short"] = "lock"]
              /\ broadcasted' = [broadcasted EXCEPT !["short"] = FALSE]
              /\ runs' = [runs EXCEPT !["short"] = [start |-> state, dirty |-> FALSE]]
              /\ UNCHANGED healPc
    /\ UNCHANGED <<DISCOVERY_ACTIVE, _DISCOVERY_LOCK, recFlags, recOther, recBook,
                   recLeds, _flash_until, ROLE_BY_IP, state, healSt, healEps,
                   healWrote, _HEAL_MISMATCH_UNTIL, _MISSING_UNTIL, recSup,
                   pausePc, ended, held>>

\* do_pause up to pause_toggle: load_paired_endpoints (the handler ends there
\* without a paired record), then the warm-up
do_pause ==
    /\ presses < MaxPresses
    /\ pausePc = "idle"
    /\ presses' = presses + 1
    /\ pausePc' = IF Get(state, "paired", FALSE) THEN "toggle" ELSE "idle"
    /\ UNCHANGED <<recPairing, recFlags, recOther, recBook, recLeds, _flash_until,
                   ROLE_BY_IP, state, recHeal, _MISSING_UNTIL, recSup, runs,
                   ended, held>>

\* pause_toggle: st = STATE.load(); st["paused"] = not paused; STATE.save(st)
pause_toggle ==
    /\ pausePc = "toggle"
    /\ pausePc' = "idle"
    /\ state' = Put(state, "paused", ~Get(state, "paused", FALSE))
    /\ runs' = Dirty(runs)
    /\ UNCHANGED <<recPairing, recFlags, recOther, recBook, recLeds, _flash_until,
                   ROLE_BY_IP, recHeal, _MISSING_UNTIL, recSup, presses, ended,
                   held>>

\* run_pairing_auto from pair_auto's decide_roles to the end of the except
\* clauses: on success the record is saved and the missing roles are
\* marked; ConflictError and NoRespondersError set their flag
pair_auto(t, responders) ==
    /\ pairPc[t] = "decide"
    /\ pairPc' = [pairPc EXCEPT ![t] = "finally"]
    /\ LET res == decide_roles(responders)
           reached == Reaches(res.kind)
           st == IF reached THEN save_paired_state(res.assigned, state) ELSE state
           conflict == IF res.kind = "ConflictError" THEN TRUE ELSE _PAIR_CONFLICT
           fatal == IF res.kind = "NoRespondersError" THEN TRUE ELSE _PAIR_FATAL_FAIL
       IN  /\ state' = st
           /\ ROLE_BY_IP' = IF reached THEN refresh_role_map_from_state(st)
                            ELSE ROLE_BY_IP
           /\ _MISSING_UNTIL' = IF res.kind = "ok"
                                  THEN _mark_incomplete_roles(res.assigned, monoCs)
                                  ELSE _MISSING_UNTIL
           /\ _PAIR_CONFLICT' = conflict
           /\ _PAIR_FATAL_FAIL' = fatal
           /\ runs' = IF reached THEN Dirty(runs) ELSE runs
           /\ ended' = [ended EXCEPT ![t] =
                          [result |-> res.kind, fatal |-> fatal, conflict |-> conflict,
                           before |-> state, after |-> st,
                           start |-> runs[t].start, dirty |-> runs[t].dirty]]
    /\ UNCHANGED <<DISCOVERY_ACTIVE, _DISCOVERY_LOCK, broadcasted, recOther, recBook,
                   recLeds, _flash_until, recHeal, recSup, pausePc, presses, held>>

\* heal_reconcile_strict: eps = load_paired_endpoints() (the thread ends
\* there without a paired record); st = STATE.load()
heal_begin ==
    /\ healPc = "load"
    /\ IF Get(state, "paired", FALSE)
         THEN /\ healEps' = load_paired_endpoints(state)
              /\ healSt' = state
              /\ healPc' = HealNext(load_paired_endpoints(state), 1)
         ELSE /\ healPc' = "idle"
              /\ UNCHANGED <<healSt, healEps>>
    /\ UNCHANGED <<recPairing, recFlags, recOther, recBook, recLeds, _flash_until,
                   ROLE_BY_IP, state, healWrote, _HEAL_MISMATCH_UNTIL,
                   _MISSING_UNTIL, recSup, pausePc, presses, runs, ended, held>>

\* heal_reconcile_strict, the body of its loop for the role it is at, from
\* the return of request_workspaces on
heal_role ==
    /\ healPc \in RoleSet
    /\ \E r \in RecReplies(healEps[healPc]) :
         LET role == healPc
             ep == healEps[role]
             wsmap == IF r = PyNone THEN << >> ELSE parse_workspaces(r)
             led == [steady |-> _steady, blink |-> _blink, toggle |-> _toggle]
         IN  IF ep.workspace_name \notin DOMAIN wsmap
               THEN LET out == set_state(led, role, dim(C_RED), FALSE, BLINK_TOGGLE_NORM)
                    IN  /\ _steady' = out.steady
                        /\ _blink' = out.blink
                        /\ _toggle' = out.toggle
                        /\ _HEAL_MISMATCH_UNTIL' =
                              [_HEAL_MISMATCH_UNTIL EXCEPT ![role] = monoCs + HEAL_MISMATCH_SEC]
                        /\ UNCHANGED <<state, ROLE_BY_IP, healSt, healEps, healWrote,
                                       runs, _flash_until>>
               ELSE LET new_id == wsmap[ep.workspace_name]
                        writes == new_id # "" /\ new_id # ep.workspace_id
                        st == IF writes
                                THEN StoreWsid(healSt, role, ep.workspace_name, new_id)
                                ELSE healSt
                    IN  /\ healSt' = st
                        /\ healEps' = IF writes
                                        THEN [healEps EXCEPT ![role].workspace_id = new_id]
                                        ELSE healEps
                        /\ state' = IF writes THEN st ELSE state
                        /\ ROLE_BY_IP' = IF writes THEN refresh_role_map_from_state(st)
                                         ELSE ROLE_BY_IP
                        /\ healWrote' = IF writes
                                          THEN [happened |-> TRUE, role |-> role,
                                                loaded |-> healSt, before |-> state,
                                                after |-> st, old_id |-> ep.workspace_id,
                                                new_id |-> new_id]
                                          ELSE healWrote
                        /\ runs' = IF writes THEN Dirty(runs) ELSE runs
                        /\ _HEAL_MISMATCH_UNTIL' = [_HEAL_MISMATCH_UNTIL EXCEPT ![role] = 0]
                        /\ _flash_until' = [_flash_until EXCEPT ![role] = monoCs + HEAL_FLASH_SEC]
                        /\ UNCHANGED recLeds
    /\ healPc' = HealNext(healEps, RoleIdx(healPc) + 1)
    /\ UNCHANGED <<recPairing, recFlags, recOther, recBook, _MISSING_UNTIL, recSup,
                   pausePc, presses, ended, held>>

\* run_daemon, one iteration up to the end of its first loop: the restart
\* test, the load, the role map, the flags; with a paired record and no
\* flag, the endpoints are loaded and every role is sent its heartbeat
sup_begin ==
    /\ supPc = "top"
    /\ ticks < MaxTicks
    /\ ticks' = ticks + 1
    /\ LockFree(_DISCOVERY_LOCK)
    /\ IF RESTART_EVENT
         THEN /\ supPc' = "restarted"
              /\ UNCHANGED <<ROLE_BY_IP, recLeds, supEps, _last_thump_sent, thumps>>
         ELSE LET st == state
                  led == [steady |-> _steady, blink |-> _blink, toggle |-> _toggle]
              IN  /\ ROLE_BY_IP' = refresh_role_map_from_state(st)
                  /\ IF \/ _PAIR_CONFLICT
                        \/ _PAIR_FATAL_FAIL
                        \/ DISCOVERY_ACTIVE
                        \/ ~Get(st, "paired", FALSE)
                       THEN LET out == LedChoice(led, _PAIR_CONFLICT, _PAIR_FATAL_FAIL,
                                                 DISCOVERY_ACTIVE, st, monoCs)
                            IN  /\ _steady' = out.steady
                                /\ _blink' = out.blink
                                /\ _toggle' = out.toggle
                                /\ UNCHANGED <<supPc, supEps, _last_thump_sent, thumps>>
                       ELSE LET eps == _inject_last_seen(load_paired_endpoints(st))
                                w0 == [last_thump_sent |-> _last_thump_sent,
                                       thumps |-> thumps]
                                w1 == ThumpLoop(w0, eps, now, 1)
                            IN  /\ supEps' = eps
                                /\ supPc' = SupNext(eps, 1)
                                /\ _last_thump_sent' = w1.last_thump_sent
                                /\ thumps' = w1.thumps
                                /\ UNCHANGED recLeds
    /\ UNCHANGED <<recPairing, recFlags, recOther, _last_reconcile, _offline_backoff,
                   _offline_next_try, asks, fails, answered, _flash_until, state,
                   recHeal, _MISSING_UNTIL, pausePc, presses, runs, ended, held>>

\* run_daemon, the body of its second loop for the role it is at:
\* reset_offline_backoff, or reconcile_endpoint with the reply it waited for
sup_role ==
    /\ supPc \in RoleSet
    /\ \E r \in RecReplies(supEps[supPc]) :
         LET role == supPc
             ep == supEps[role]
             w0 == [last_thump_sent |-> _last_thump_sent,
                    last_reconcile |-> _last_reconcile,
                    offline_backoff |-> _offline_backoff,
                    offline_next_try |-> _offline_next_try,
                    st |-> state, thumps |-> thumps, asks |-> asks,
                    fails |-> fails, answered |-> answered]
             w2 == WatchRole(w0, role, supEps, Heard(r, ep), now)
             writes == w2.st # state
         IN  /\ _last_reconcile' = w2.last_reconcile
             /\ _offline_backoff' = w2.offline_backoff
             /\ _offline_next_try' = w2.offline_next_try
             /\ asks' = w2.asks
             /\ fails' = w2.fails
             /\ answered' = w2.answered
             /\ state' = w2.st
             /\ ROLE_BY_IP' = IF writes THEN refresh_role_map_from_state(w2.st)
                              ELSE ROLE_BY_IP
             /\ runs' = IF writes THEN Dirty(runs) ELSE runs
             /\ supEps' = IF writes
                            THEN [supEps EXCEPT ![role].workspace_id =
                                     w2.st.endpoints[role].workspace_id]
                            ELSE supEps
    /\ supPc' = SupNext(supEps, RoleIdx(supPc) + 1)
    /\ UNCHANGED <<ticks, recPairing, recFlags, recOther, _last_thump_sent, thumps, recLeds,
                   _flash_until, recHeal, _MISSING_UNTIL, pausePc, presses, ended,
                   held>>

\* run_daemon, the end of an iteration over a paired record:
\* set_led_role_state for the three roles
sup_leds ==
    /\ supPc = "leds"
    /\ supPc' = "top"
    /\ LET led == [steady |-> _steady, blink |-> _blink, toggle |-> _toggle]
           out == RoleStates(led, supEps, 1, monoCs)
       IN  /\ _steady' = out.steady
           /\ _blink' = out.blink
           /\ _toggle' = out.toggle
    /\ UNCHANGED <<recPairing, recFlags, recOther, recBook, _flash_until, ROLE_BY_IP,
                   state, recHeal, _MISSING_UNTIL, supEps, ticks, pausePc, presses,
                   runs, ended, held>>

\* the button handlers, the unpair command, the pairing threads, the repair
\* thread and the supervisor's loop
NextRecord ==
    \/ do_pair_held
    \/ do_pair_released
    \/ unpair_command
    \/ do_pause
    \/ pause_toggle
    \/ \E t \in RecCallers : pair_lock(t)
    \/ \E t \in RecCallers : pair_check(t)
    \/ \E t \in RecCallers : pair_set(t)
    \/ \E t \in RecCallers : pair_begin(t)
    \/ \E t \in RecCallers : pair_phase1(t)
    \/ \E t \in RecCallers : pair_phase2(t)
    \/ \E t \in RecCallers, responders \in RecInputs : pair_auto(t, responders)
    \/ \E t \in RecCallers : pair_finally(t)
    \/ heal_begin
    \/ heal_role
    \/ sup_begin
    \/ sup_role
    \/ sup_leds

(***************************************************************************)
(* The input layer: daemon.edge_guard, the callbacks button_setup binds    *)
(* to the buttons, the encoder and the pair switch, the threads they       *)
(* start, and run_daemon's loop cut between its two loads of the record.   *)
(* Times are in hundredths of a second.  A callback that waits for a       *)
(* reply is cut at the wait.  SystemExit is not an Exception: an `except   *)
(* Exception` clause lets it through to the caller.                        *)
(***************************************************************************)
BTN_HOLD_IGNORE == 25
PAIR_SHORT_MIN_DT == 50
PAIR_HOLD_RESTART_SEC == 300
CONNECT_TIMEOUT == 70

MaxEvents == 3

\* the logical keys of the action callbacks
ActionKeys == {"go", "pause", "panic", "up", "down"}

\* the thread a callback runs on: the pin factory's for the buttons,
\* RotaryEncoder._loop for the rotation
InputThreads == {"buttons", "encoder"}

ThreadOf(key) == IF key \in {"up", "down"} THEN "encoder" ELSE "buttons"

\* the threads an error can leave
EscapeThreads == InputThreads \cup {"heal", "run_daemon"}

\* the path suffix the callback of the key sends, pause_toggle's by the flag
\* of the record
CueOf(key, st) ==
    CASE key = "go" -> "go"
      [] key = "panic" -> "panic"
      [] key = "up" -> "select/previous"
      [] key = "down" -> "select/next"
      [] key = "pause" -> IF Get(st, "paused", FALSE) THEN "resume" ELSE "pause"

\* how long the clock may advance in one step
InputGaps == {10, 25, 300}

IdleCb == [pc |-> "idle"]

NoCall == [key |-> "none"]

NoPairEvent == [event |-> "none"]

\* the timestamp moves on a rejected fire too
EdgeGuardStampsAlways(last_fire, key, min_dt, t) ==
    [ok |-> ~(t - Get(last_fire, key, 0) < min_dt), last_fire |-> Put(last_fire, key, t)]

\* every fire is accepted
EdgeGuardAcceptsAlways(last_fire, key, min_dt, t) ==
    [ok |-> TRUE, last_fire |-> Put(last_fire, key, t)]

\* edge_guard(key, min_dt) at time t: whether the fire is accepted, and
\* _last_fire after the call
edge_guard(last_fire, key, min_dt, t) ==
    LET last == Get(last_fire, key, 0)
    IN  IF (t - last) < min_dt
          THEN [ok |-> FALSE, last_fire |-> last_fire]
        ELSE [ok |-> TRUE, last_fire |-> Put(last_fire, key, t)]

\* ensure_app_flags(ip, force=True): three messages to the application
ensure_app_flags(ip) ==
    << [ip |-> ip, path |-> "/udpReplyPort"],
       [ip |-> ip, path |-> "/alwaysReply"],
       [ip |-> ip, path |-> "/forgetMeNot"] >>

\* connect_endpoint up to its wait: the connect message of the workspace
ConnectMsg(ep) == [ip |-> ep.ip, path |-> "/workspace/" \o ep.workspace_id \o "/connect"]

\* warmup_before_action: the next role from ROLES[i] on that passes
\* `if not ep or not ep.workspace_id: continue`
RECURSIVE warmup_before_action(_, _)
warmup_before_action(eps, i) ==
    IF i > Len(ROLES) THEN "send"
    ELSE IF ROLES[i] \in DOMAIN eps /\ eps[ROLES[i]].workspace_id # ""
      THEN ROLES[i]
    ELSE warmup_before_action(eps, i + 1)

\* send_action(eps, suffix): send_ws_fast for every role with an identifier
RECURSIVE send_action(_, _, _)
send_action(eps, suffix, i) ==
    IF i > Len(ROLES) THEN << >>
    ELSE IF ROLES[i] \in DOMAIN eps /\ eps[ROLES[i]].workspace_id # ""
      THEN << [ip |-> eps[ROLES[i]].ip,
               path |-> "/workspace/" \o eps[ROLES[i]].workspace_id \o "/" \o suffix] >>
           \o send_action(eps, suffix, i + 1)
    ELSE send_action(eps, suffix, i + 1)

InputStart ==
    /\ _last_fire = << >>
    /\ _pair_pressed_mono = 0
    /\ _pair_held_fired = FALSE
    /\ pairDown = FALSE
    /\ cb = [th \in InputThreads |-> IdleCb]
    /\ outbox = << >>
    /\ escaped = [th \in EscapeThreads |-> FALSE]
    /\ events = 0
    /\ fires = << >>
    /\ call = NoCall
    /\ pairEvent = NoPairEvent

\* what every step of this section leaves alone
inputRest ==
    <<rolesVars, storeVars, sendVars, clsVars, oscVars, discVars, connVars, now, reachable, reopened, LAST_SEEN_BY_IP,
      recRender, _flash_until, RESTART_EVENT, pausePc, presses, ended, healWrote,
      _HEAL_MISMATCH_UNTIL, _last_reconcile, _offline_backoff, _offline_next_try,
      asks, fails, answered>>

inputThumps == <<_last_thump_sent, thumps>>

inputSwitch == <<_pair_pressed_mono, _pair_held_fired, pairDown, pairEvent>>

inputCalls == <<_last_fire, cb, outbox, fires, call>>

inputHeal == <<healPc, healSt, healEps>>

\* the clock advances; a pair switch that is down at the end of its hold
\* time fires its hold event first
input_wait(dt) ==
    /\ events < MaxEvents
    /\ events' = events + 1
    /\ ~(/\ pairDown
         /\ ~_pair_held_fired
         /\ monoCs - _pair_pressed_mono >= PAIR_HOLD_RESTART_SEC)
    /\ monoCs' = monoCs + dt
    /\ UNCHANGED <<inputRest, inputThumps, inputSwitch, inputCalls, inputHeal,
                   pairVars, recLeds, recSup, ROLE_BY_IP, seenCs, state,
                   _MISSING_UNTIL, runs, held, escaped>>

\* the callback of thread th is done with the role at ROLES[i-1]: the
\* flags and the connect of the next role and the wait for its reply, or
\* send_action (pause_toggle for the pause key) and the return
Warm(th, key, eps, i, box) ==
    LET role == warmup_before_action(eps, i)
    IN  IF role = "send"
          THEN /\ cb' = [cb EXCEPT ![th] = IdleCb]
               /\ outbox' = box \o send_action(eps, CueOf(key, state), 1)
               /\ state' = IF key = "pause"
                             THEN Put(state, "paused", ~Get(state, "paused", FALSE))
                           ELSE state
               /\ runs' = IF key = "pause" THEN Dirty(runs) ELSE runs
        ELSE /\ cb' = [cb EXCEPT ![th] =
                          [pc |-> "wait", key |-> key, eps |-> eps, role |-> role,
                           attempt |-> 1, since |-> monoCs]]
             /\ outbox' = box \o ensure_app_flags(eps[role].ip) \o << ConnectMsg(eps[role]) >>
             /\ UNCHANGED <<state, runs>>

\* do_go, do_pause, do_panic, do_up (enc_ccw), do_down (enc_cw), from the
\* event to the return or to the first wait: edge_guard, then
\* load_paired_endpoints, whose SystemExit passes the except clause and
\* leaves the callback (RotaryEncoder._loop ends with it), then the warm-up
do_action(key) ==
    LET th == ThreadOf(key)
        g == edge_guard(_last_fire, key, BTN_HOLD_IGNORE, monoCs)
        paired == Get(state, "paired", FALSE)
    IN  /\ events < MaxEvents
        /\ cb[th].pc = "idle"
        /\ th = "encoder" => ~escaped[th]
        /\ events' = events + 1
        /\ _last_fire' = g.last_fire
        /\ fires' = IF g.ok THEN Put(fires, key, LastTwo(Get(fires, key, << >>), monoCs))
                    ELSE fires
        /\ IF g.ok /\ paired
             THEN Warm(th, key, load_paired_endpoints(state), 1, outbox)
           ELSE UNCHANGED <<cb, outbox, state, runs>>
        /\ escaped' = IF g.ok /\ ~paired THEN [escaped EXCEPT ![th] = TRUE] ELSE escaped
        /\ call' = [key |-> key, at |-> monoCs, ok |-> g.ok, paired |-> paired,
                    last_before |-> Get(_last_fire, key, 0),
                    last_after |-> Get(g.last_fire, key, 0),
                    box_before |-> outbox, box_after |-> outbox',
                    before |-> state, after |-> state',
                    returned |-> cb'[th].pc = "idle",
                    raised |-> g.ok /\ ~paired]
        /\ UNCHANGED <<inputRest, inputThumps, inputSwitch, inputHeal, pairVars,
                       recLeds, recSup, ROLE_BY_IP, seenCs, monoCs, _MISSING_UNTIL,
                       held>>

\* connect_endpoint from the return of ev.wait(timeout): a reply with the
\* status set the event, or the timeout passed; ensure_connected tries a
\* second time after a failure, and the callback goes on with the next role
connect_endpoint(th, status) ==
    LET c == cb[th]
        ep == c.eps[c.role]
    IN  /\ c.pc = "wait"
        /\ IF status = "timeout" THEN monoCs >= c.since + CONNECT_TIMEOUT
           ELSE monoCs < c.since + CONNECT_TIMEOUT
        /\ seenCs' = IF status = "ok" THEN Put(seenCs, ep.ip, monoCs) ELSE seenCs
        /\ IF status # "ok" /\ c.attempt = 1
             THEN /\ cb' = [cb EXCEPT ![th].attempt = 2, ![th].since = monoCs]
                  /\ outbox' = outbox \o ensure_app_flags(ep.ip) \o << ConnectMsg(ep) >>
                  /\ UNCHANGED <<state, runs>>
           ELSE Warm(th, c.key, c.eps, RoleIdx(c.role) + 1, outbox)
        /\ UNCHANGED <<inputRest, inputThumps, inputSwitch, inputHeal, pairVars,
                       recLeds, recSup, ROLE_BY_IP, monoCs, _MISSING_UNTIL, held,
                       _last_fire, fires, call, escaped, events>>

\* do_pair_pressed: the pair switch goes down
when_pressed ==
    /\ events < MaxEvents
    /\ ~pairDown
    /\ events' = events + 1
    /\ pairDown' = TRUE
    /\ _pair_pressed_mono' = monoCs
    /\ _pair_held_fired' = FALSE
    /\ UNCHANGED <<inputRest, inputThumps, inputCalls, inputHeal, pairVars, recLeds,
                   recSup, ROLE_BY_IP, seenCs, monoCs, state, _MISSING_UNTIL, runs,
                   held, escaped, pairEvent>>

\* do_pair_held: the switch has been down for hold_time (hold_repeat is
\* off: once per press); force_unpair_state(), then a thread is started on
\* run_pairing_auto
when_held ==
    /\ pairDown
    /\ ~_pair_held_fired
    /\ monoCs - _pair_pressed_mono >= PAIR_HOLD_RESTART_SEC
    /\ pairPc["held"] \in {"idle", "returned"}
    /\ _pair_held_fired' = TRUE
    /\ LET st == force_unpair_state(state)
       IN  /\ state' = st
           /\ ROLE_BY_IP' = refresh_role_map_from_state(st)
           /\ held' = [fired |-> TRUE, before |-> state, record |-> st,
                       target |-> "run_pairing_auto"]
           /\ runs' = [Dirty(runs) EXCEPT !["held"] = [start |-> st, dirty |-> FALSE]]
    /\ _PAIR_FATAL_FAIL' = FALSE
    /\ _PAIR_CONFLICT' = FALSE
    /\ _MISSING_UNTIL' = [_MISSING_UNTIL EXCEPT !["backup"] = 0, !["aux"] = 0]
    /\ pairPc' = [pairPc EXCEPT !["held"] = "lock"]
    /\ broadcasted' = [broadcasted EXCEPT !["held"] = FALSE]
    /\ UNCHANGED <<inputRest, inputThumps, inputCalls, inputHeal, DISCOVERY_ACTIVE,
                   _DISCOVERY_LOCK, recLeds, recSup, seenCs, monoCs, escaped, events,
                   _pair_pressed_mono, pairDown>>
    /\ pairEvent' = [event |-> "held", held_fired |-> _pair_held_fired,
                     at |-> monoCs, last_fire |-> _last_fire,
                     before |-> state, after |-> state',
                     heal |-> << healPc, healPc' >>,
                     pairing |-> << pairPc, pairPc' >>]

\* a release without hold starts the pairing whatever the record says
ReleaseStartsPairing(held_fired, paired, ok) ==
    IF held_fired \/ ~ok THEN "nothing" ELSE "run_pairing_auto"

\* do_pair_released: the thread target of a release, by _pair_held_fired,
\* st.get("paired") and the answer of edge_guard
ReleaseStarts(held_fired, paired, ok) ==
    IF held_fired \/ ~ok THEN "nothing"
    ELSE IF paired THEN "heal_reconcile_strict"
    ELSE "run_pairing_auto"

\* do_pair_released: nothing after a hold; over a paired record
\* heal_reconcile_strict, else run_pairing_auto, each behind its edge_guard
\* and on a thread of its own
when_released ==
    LET paired == Get(state, "paired", FALSE)
        key == IF paired THEN "pair_short_heal" ELSE "pair_short"
        g == edge_guard(_last_fire, key, PAIR_SHORT_MIN_DT, monoCs)
        started == ReleaseStarts(_pair_held_fired, paired, g.ok)
    IN  /\ pairDown
        /\ _pair_held_fired \/ monoCs - _pair_pressed_mono < PAIR_HOLD_RESTART_SEC
        /\ started = "heal_reconcile_strict" => healPc = "idle"
        /\ started = "run_pairing_auto" => pairPc["short"] \in {"idle", "returned"}
        /\ pairDown' = FALSE
        /\ _last_fire' = IF _pair_held_fired THEN _last_fire ELSE g.last_fire
        /\ healPc' = IF started = "heal_reconcile_strict" THEN "load" ELSE healPc
        /\ IF started = "run_pairing_auto"
             THEN /\ pairPc' = [pairPc EXCEPT !["short"] = "lock"]
                  /\ broadcasted' = [broadcasted EXCEPT !["short"] = FALSE]
                  /\ runs' = [runs EXCEPT !["short"] = [start |-> state, dirty |-> FALSE]]
           ELSE UNCHANGED <<pairPc, broadcasted, runs>>
        /\ UNCHANGED <<inputRest, inputThumps, cb, outbox, fires, call, healSt, healEps,
                       DISCOVERY_ACTIVE, _DISCOVERY_LOCK, recFlags, recLeds, recSup,
                       ROLE_BY_IP, seenCs, monoCs, state, _MISSING_UNTIL, held,
                       escaped, events, _pair_pressed_mono, _pair_held_fired>>
        /\ pairEvent' = [event |-> "released", held_fired |-> _pair_held_fired,
                         at |-> monoCs, last_fire |-> _last_fire,
                         before |-> state, after |-> state',
                         heal |-> << healPc, healPc' >>,
                         pairing |-> << pairPc, pairPc' >>]

\* heal_reconcile_strict up to its loop: eps = load_paired_endpoints(),
\* whose SystemExit passes the except clause and ends the thread;
\* st = STATE.load()
heal_reconcile_strict ==
    /\ healPc = "load"
    /\ IF Get(state, "paired", FALSE)
         THEN /\ healEps' = load_paired_endpoints(state)
              /\ healSt' = state
              /\ healPc' = HealNext(load_paired_endpoints(state), 1)
              /\ UNCHANGED escaped
         ELSE /\ healPc' = "idle"
              /\ escaped' = [escaped EXCEPT !["heal"] = TRUE]
              /\ UNCHANGED <<healSt, healEps>>
    /\ UNCHANGED <<inputRest, inputThumps, inputSwitch, inputCalls, pairVars, recLeds,
                   recSup, ROLE_BY_IP, seenCs, monoCs, state, _MISSING_UNTIL, runs,
                   held, events>>

\* run_daemon, one iteration up to the choice of the LED states: the
\* restart test, st = STATE.load(), the role map, the flags; with a paired
\* st and no flag the iteration goes on to load the endpoints
run_daemon_check ==
    /\ supPc = "top"
    /\ ticks < MaxTicks
    /\ ticks' = ticks + 1
    /\ LockFree(_DISCOVERY_LOCK)
    /\ IF RESTART_EVENT
         THEN /\ supPc' = "restarted"
              /\ UNCHANGED <<ROLE_BY_IP, recLeds>>
         ELSE LET st == state
                  led == [steady |-> _steady, blink |-> _blink, toggle |-> _toggle]
              IN  /\ ROLE_BY_IP' = refresh_role_map_from_state(st)
                  /\ IF \/ _PAIR_CONFLICT
                        \/ _PAIR_FATAL_FAIL
                        \/ DISCOVERY_ACTIVE
                        \/ ~Get(st, "paired", FALSE)
                       THEN LET out == LedChoice(led, _PAIR_CONFLICT, _PAIR_FATAL_FAIL,
                                                 DISCOVERY_ACTIVE, st, monoCs)
                            IN  /\ _steady' = out.steady
                                /\ _blink' = out.blink
                                /\ _toggle' = out.toggle
                                /\ UNCHANGED supPc
                       ELSE /\ supPc' = "load"
                            /\ UNCHANGED recLeds
    /\ UNCHANGED <<inputRest, inputThumps, inputSwitch, inputCalls, inputHeal, pairVars,
                   supEps, seenCs, monoCs, state, _MISSING_UNTIL, runs, held, escaped,
                   events>>

\* run_daemon, `try: eps = qc.load_paired_endpoints() except Exception`:
\* what becomes of the call over the record st; the SystemExit of
\* load_paired_endpoints is not an Exception
LoadOutcome(st) == IF Get(st, "paired", FALSE) THEN "loaded" ELSE "SystemExit"

\* run_daemon from load_paired_endpoints() to the end of its first loop:
\* the SystemExit of a record that is no longer paired passes the except
\* clause and leaves run_daemon; else every role is sent its heartbeat
run_daemon_load ==
    /\ supPc = "load"
    /\ LET res == LoadOutcome(state)
       IN  CASE res = "SystemExit" ->
                  /\ supPc' = "exited"
                  /\ escaped' = [escaped EXCEPT !["run_daemon"] = TRUE]
                  /\ UNCHANGED <<supEps, inputThumps, recLeds>>
             [] res = "loaded" ->
                  LET eps == _inject_last_seen(load_paired_endpoints(state))
                      w0 == [last_thump_sent |-> _last_thump_sent, thumps |-> thumps]
                      w1 == ThumpLoop(w0, eps, now, 1)
                  IN  /\ supEps' = eps
                      /\ supPc' = SupNext(eps, 1)
                      /\ _last_thump_sent' = w1.last_thump_sent
                      /\ thumps' = w1.thumps
                      /\ UNCHANGED <<recLeds, escaped>>
    /\ UNCHANGED <<inputRest, inputSwitch, inputCalls, inputHeal, pairVars, ticks,
                   ROLE_BY_IP, seenCs, monoCs, state, _MISSING_UNTIL, runs, held,
                   events>>

\* the events of the buttons, the encoder and the pair switch and the
\* unpair command; a pairing thread is started and left at its first
\* statement, the repair thread is followed up to its loop
NextInput ==
    \/ \E dt \in InputGaps : input_wait(dt)
    \/ \E key \in ActionKeys : do_action(key)
    \/ \E th \in InputThreads, status \in {"ok", "timeout"} :
          connect_endpoint(th, status)
    \/ when_pressed
    \/ when_held
    \/ when_released
    \/ unpair_command
    \/ heal_reconcile_strict

\* the supervisor's loop, with the pair switch and the unpair command
NextTick ==
    \/ \E dt \in InputGaps : input_wait(dt)
    \/ when_pressed
    \/ when_held
    \/ when_released
    \/ unpair_command
    \/ run_daemon_check
    \/ run_daemon_load
    \/ sup_role
    \/ sup_leds

(***************************************************************************)
(* discover._classify on its own, and decide_roles over names of several   *)
(* bases.                                                                  *)
(***************************************************************************)
\* what a workspace name may begin with
Stems ==
    { << >>,
      << "a" >>,
      << "S" >>,
      << "s", "h", "o", "w" >>,
      << "g", "a", "l", "a" >>,
      EXPECTED_WS_MAIN,
      << "x" >> \o SUFFIX_BACKUP,
      LEGACY_BASE }

\* what it may end with: nothing, a role suffix, or something close to one
Tails ==
    { << >>,
      SUFFIX_MAIN,
      SUFFIX_BACKUP,
      SUFFIX_AUX1,
      << "m", "a", "i", "n" >>,
      << "_", "m", "a", "i", "n", "1" >>,
      << "_", "a", "u", "x" >> }

ClassNames == { stem \o tail : stem \in Stems, tail \in Tails }

NotClassified == [done |-> FALSE]

ClsStart ==
    /\ wsName = << >>
    /\ classified = NotClassified

\* kind, base = _classify(wsName)
classify ==
    /\ ~classified.done
    /\ classified' = [done |-> TRUE, kind |-> _classify(wsName)[1],
                      base |-> _classify(wsName)[2]]
    /\ UNCHANGED <<wsName, notCls>>

\* the next name of wsmap.items()
next_item(name) ==
    /\ classified.done
    /\ wsName' = name
    /\ classified' = NotClassified
    /\ UNCHANGED notCls

NextClassify ==
    \/ classify
    \/ \E name \in ClassNames : next_item(name)

\* workspace names of three bases: one that sorts before the sentinel base,
\* the legacy names, one that sorts after it
BaseNames ==
    { EXPECTED_WS_MAIN,
      EXPECTED_WS_BACKUP,
      << "g", "a", "l", "a" >> \o SUFFIX_MAIN,
      << "g", "a", "l", "a" >> \o SUFFIX_BACKUP,
      << "S", "o", "l", "o" >> \o SUFFIX_MAIN,
      << "S", "o", "l", "o" >> \o SUFFIX_BACKUP }

\* the identifier a remote gives a workspace of BaseNames
BaseIdOf(name) ==
    CASE name = << "S", "o", "l", "o" >> \o SUFFIX_MAIN -> "id-Solo_main"
      [] name = << "S", "o", "l", "o" >> \o SUFFIX_BACKUP -> "id-Solo_backup"
      [] OTHER -> WsIdOf(name)

NextBases ==
    \/ \E ip \in IPs, name \in BaseNames : Advertise(ip, name, BaseIdOf(name))
    \/ Decide

(***************************************************************************)
(* The reply handler and the reply waiters (core.py).                      *)
(*                                                                         *)
(* An OSC address is the sequence of its segments: << "workspace", "idA",  *)
(* "thump" >> is "/workspace/idA/thump", and str.endswith("/thump") is     *)
(* EndsWith(_, << "thump" >>).  A reply is the dict json.loads returned;   *)
(* a field the reply does not carry is a key the dict does not have.       *)
(***************************************************************************)
MaxReplies == 2

\* the threads that call connect_endpoint for the same endpoint: a role's
\* ThumpLoop (thump_fire) and a button callback (warmup_before_action)
ConnCallers == {"thump", "button"}

\* the endpoint they connect to
ConnEp == Endpoint("10.0.0.1", "main", EXPECTED_WS_MAIN, "idA")

ConnectKey(ip, wsid) == << "connect", ip, wsid >>

WorkspacesKey(ip) == << "workspaces", ip >>

\* suffixes of the cue actions whose replies are acknowledged
AckSuffixes ==
    { << "go" >>, << "panic" >>, << "stop" >>, << "pause" >>, << "resume" >>,
      << "select", "next" >>, << "select", "previous" >> }

\* dict.pop(key, None) as a statement
Discard(d, key) == [k \in DOMAIN d \ {key} |-> d[k]]

\* isinstance(wsid, str) and wsid, for wsid = j.get("workspace_id")
HasWsid(j) == "workspace_id" \in DOMAIN j /\ j.workspace_id # ""

\* the thump rule without the test of the identifier
ThumpRuleAnyId(invoked, j) == EndsWith(invoked, << "thump" >>)

\* invoked.endswith("/thump") and isinstance(wsid, str) and wsid
ThumpRule(invoked, j) == EndsWith(invoked, << "thump" >>) /\ HasWsid(j)

\* ReplyWaiter.set: the payload is stored; the registered Event, if any, is set
WaiterSet(key, payload) ==
    /\ _payloads' = Put(_payloads, key, payload)
    /\ evSet' = IF key \in DOMAIN _events
                  THEN [evSet EXCEPT ![_events[key]] = TRUE]
                ELSE evSet

\* which rule of _osc_handler the reply falls under
RuleOf(address, j) ==
    LET invoked == Get(j, "address", << >>)
    IN  IF SubSeq(address, 1, 2) = << "reply", "workspaces" >>
           \/ invoked = << "workspaces" >> THEN "workspaces"
        ELSE IF EndsWith(invoked, << "connect" >>) /\ HasWsid(j) THEN "connect"
        ELSE IF ThumpRule(invoked, j) THEN "thump"
        ELSE IF /\ Get(j, "status", "") = "ok"
                /\ HasWsid(j)
                /\ \E suffix \in AckSuffixes : EndsWith(invoked, suffix) THEN "ack"
        ELSE "none"

\* the inner addresses a reply may name
InnerAddresses ==
    { << >>,
      << "workspaces" >>,
      << "workspace", "idA", "connect" >>,
      << "workspace", "idA", "thump" >>,
      << "thump" >>,
      << "workspace", "idA", "go" >>,
      << "workspace", "idA", "select", "next" >> }

ReplyStatuses == {"ok", "error"}

\* the replies: with an identifier, with an empty one, without the field
OscReplies ==
    { [address |-> a, status |-> s, workspace_id |-> w] :
        a \in InnerAddresses, s \in ReplyStatuses, w \in {"idA", ""} }
    \cup { [address |-> a, status |-> s] : a \in InnerAddresses, s \in ReplyStatuses }

\* the OSC addresses the replies come under
OuterAddresses == { << "reply", "workspaces" >>, << "reply", "workspace", "idA" >> }

NotHandled == [happened |-> FALSE]

NotLeft == [happened |-> FALSE]

OscStart ==
    /\ _events = << >>
    /\ _payloads = << >>
    /\ evSet = [th \in ConnCallers |-> FALSE]
    /\ conn = [th \in ConnCallers |-> "idle"]
    /\ discovered = {}
    /\ arrived = [th \in ConnCallers |-> {}]
    /\ handled = NotHandled
    /\ left = NotLeft
    /\ nReplies = 0
    /\ armedAt = << >>

\* the record says the endpoint's address is main's
OscBoot ==
    /\ OscStart
    /\ ROLE_BY_IP = (ConnEp.ip :> "main")

oscLedRest ==
    <<_steady, _blink, _toggle, _fade_start, _fade_from, _last_rendered, _flash_active,
      ROLE_BY_IP, rendered, ticked, acked>>

oscOthers ==
    <<rolesVars, storeVars, watchVars, pairVars, sendVars, recVars, inputVars, clsVars,
      discVars, connVars, oscLedRest, armedAt>>

\* _osc_handler(client_address, address, payload) for a payload that parses
\* to the dict j
_osc_handler(src_ip, address, j) ==
    /\ nReplies < MaxReplies
    /\ nReplies' = nReplies + 1
    /\ monoCs' = monoCs + 1
    /\ LET rule == RuleOf(address, j)
           status == Get(j, "status", "")
           r == role_from_ip(src_ip)
           key == IF rule = "workspaces" THEN WorkspacesKey(src_ip)
                  ELSE ConnectKey(src_ip, j.workspace_id)
           marks == \/ rule \in {"connect", "thump"} /\ status = "ok"
                    \/ rule = "ack"
           acks == rule = "ack" /\ r # ""
       IN  /\ IF rule \in {"workspaces", "connect"}
                THEN WaiterSet(key, j)
              ELSE UNCHANGED <<_payloads, evSet>>
           /\ discovered' = IF rule = "workspaces" THEN discovered \cup {src_ip}
                            ELSE discovered
           /\ seenCs' = IF marks THEN Put(seenCs, src_ip, monoCs') ELSE seenCs
           /\ _flash_until' = IF acks
                                THEN [_flash_until EXCEPT ![r] = monoCs' + ACK_FLASH_SEC]
                              ELSE _flash_until
           /\ ackCount' = IF acks THEN ackCount + 1 ELSE ackCount
           /\ arrived' = [th \in ConnCallers |->
                          IF /\ rule = "connect"
                             /\ key = ConnectKey(ConnEp.ip, ConnEp.workspace_id)
                             /\ conn[th] \in {"wait", "woken"}
                            THEN arrived[th] \cup {status}
                          ELSE arrived[th]]
    /\ handled' = [happened |-> TRUE, src_ip |-> src_ip, address |-> address, j |-> j,
                   at |-> monoCs',
                   seen_before |-> seenCs, seen_after |-> seenCs',
                   acks_before |-> ackCount, acks_after |-> ackCount',
                   flash_before |-> _flash_until, flash_after |-> _flash_until']
    /\ UNCHANGED <<_events, conn, left, oscOthers>>

\* connect_endpoint up to ev.wait: WAITERS.arm(key), send_ws(.., "connect")
connect_arm(th) ==
    /\ conn[th] = "idle"
    /\ ConnEp.workspace_id # ""
    /\ LET key == ConnectKey(ConnEp.ip, ConnEp.workspace_id)
       IN  /\ _events' = Put(_events, key, th)
           /\ _payloads' = Discard(_payloads, key)
    /\ evSet' = [evSet EXCEPT ![th] = FALSE]
    /\ conn' = [conn EXCEPT ![th] = "wait"]
    /\ arrived' = [arrived EXCEPT ![th] = {}]
    /\ UNCHANGED <<discovered, handled, left, nReplies, monoCs, seenCs, _flash_until,
                   ackCount, oscOthers>>

\* ev.wait(timeout) returned False: WAITERS.cleanup(key); return False
connect_timeout(th) ==
    /\ conn[th] = "wait"
    /\ ~evSet[th]
    /\ LET key == ConnectKey(ConnEp.ip, ConnEp.workspace_id)
       IN  /\ _events' = Discard(_events, key)
           /\ _payloads' = Discard(_payloads, key)
           /\ left' = [happened |-> TRUE, th |-> th, result |-> FALSE, woken |-> FALSE,
                       arrived |-> arrived[th],
                       registered |-> key \in DOMAIN _events',
                       seen_before |-> seenCs, seen_after |-> seenCs]
    /\ conn' = [conn EXCEPT ![th] = "idle"]
    /\ UNCHANGED <<evSet, discovered, arrived, handled, nReplies, monoCs, seenCs,
                   _flash_until, ackCount, oscOthers>>

\* ev.wait(timeout) returned True
connect_wake(th) ==
    /\ conn[th] = "wait"
    /\ evSet[th]
    /\ conn' = [conn EXCEPT ![th] = "woken"]
    /\ UNCHANGED <<_events, _payloads, evSet, discovered, arrived, handled, left, nReplies,
                   monoCs, seenCs, _flash_until, ackCount, oscOthers>>

\* payload = WAITERS.pop(key); status ok: mark_seen(ep.ip), return True;
\* anything else: return False
connect_pop(th) ==
    /\ conn[th] = "woken"
    /\ LET key == ConnectKey(ConnEp.ip, ConnEp.workspace_id)
           payload == Get(_payloads, key, PyNone)
           ok == payload # PyNone /\ Get(payload, "status", "") = "ok"
       IN  /\ _events' = Discard(_events, key)
           /\ _payloads' = Discard(_payloads, key)
           /\ seenCs' = IF ok THEN Put(seenCs, ConnEp.ip, monoCs) ELSE seenCs
           /\ left' = [happened |-> TRUE, th |-> th, result |-> ok, woken |-> TRUE,
                       arrived |-> arrived[th],
                       registered |-> key \in DOMAIN _events',
                       seen_before |-> seenCs, seen_after |-> seenCs']
    /\ conn' = [conn EXCEPT ![th] = "idle"]
    /\ UNCHANGED <<evSet, discovered, arrived, handled, nReplies, monoCs, _flash_until,
                   ackCount, oscOthers>>

\* replies of every shape, with callers of connect_endpoint waiting or not
NextOsc ==
    \/ \E src_ip \in IPs, address \in OuterAddresses, j \in OscReplies :
           _osc_handler(src_ip, address, j)
    \/ \E th \in ConnCallers :
           \/ connect_arm(th)
           \/ connect_timeout(th)
           \/ connect_wake(th)
           \/ connect_pop(th)

(***************************************************************************)
(* ReplyWaiter on its own: arm, set, pop and cleanup in any order, on two  *)
(* keys.  A payload carries the number of the set that stored it.          *)
(***************************************************************************)
WaiterKeys == { ConnectKey(ConnEp.ip, ConnEp.workspace_id), WorkspacesKey(ConnEp.ip) }

\* arm that leaves the stored payload in place
WaiterArmKeepsPayload(th, key) ==
    /\ _events' = Put(_events, key, th)
    /\ _payloads' = _payloads

\* ReplyWaiter.arm: a new Event is registered, the stored payload dropped
WaiterArm(th, key) ==
    /\ _events' = Put(_events, key, th)
    /\ _payloads' = Discard(_payloads, key)

waiterRest ==
    <<rolesVars, storeVars, watchVars, pairVars, sendVars, ledVars, recVars, inputVars,
      clsVars, discVars, connVars, conn, discovered, arrived>>

\* ev = WAITERS.arm(key)
waiter_arm(th, key) ==
    /\ WaiterArm(th, key)
    /\ evSet' = [evSet EXCEPT ![th] = FALSE]
    /\ armedAt' = Put(armedAt, key, nReplies)
    /\ UNCHANGED <<handled, left, nReplies, waiterRest>>

\* WAITERS.set(key, payload)
waiter_set(key, status) ==
    /\ nReplies < MaxReplies
    /\ nReplies' = nReplies + 1
    /\ WaiterSet(key, [status |-> status, serial |-> nReplies'])
    /\ handled' = [happened |-> TRUE, key |-> key,
                   registered |-> key \in DOMAIN _events,
                   set_before |-> evSet, set_after |-> evSet']
    /\ UNCHANGED <<_events, left, armedAt, waiterRest>>

\* payload = WAITERS.pop(key)
waiter_pop(key) ==
    /\ left' = [happened |-> TRUE, key |-> key,
                payload |-> Get(_payloads, key, PyNone),
                armedAt |-> Get(armedAt, key, 0)]
    /\ _events' = Discard(_events, key)
    /\ _payloads' = Discard(_payloads, key)
    /\ UNCHANGED <<evSet, handled, nReplies, armedAt, waiterRest>>

\* WAITERS.cleanup(key)
waiter_cleanup(key) ==
    /\ key \in DOMAIN _events \cup DOMAIN _payloads
    /\ _events' = Discard(_events, key)
    /\ _payloads' = Discard(_payloads, key)
    /\ UNCHANGED <<evSet, handled, left, nReplies, armedAt, waiterRest>>

NextWaiter ==
    \E key \in WaiterKeys :
        \/ \E th \in ConnCallers : waiter_arm(th, key)
        \/ \E status \in ReplyStatuses : waiter_set(key, status)
        \/ waiter_pop(key)
        \/ waiter_cleanup(key)

(***************************************************************************)
(* discover_by_broadcast (discover.py) and the discovery store (core.py).  *)
(***************************************************************************)
MaxAdds == 3

\* the found' addresses in the order sorted() puts them
IpList == << "10.0.0.1", "10.0.0.2" >>

P_WORKSPACES == "/workspaces"
P_UDP_REPLY_PORT == "/udpReplyPort"
P_ALWAYS_REPLY == "/alwaysReply"
P_FORGET_ME_NOT == "/forgetMeNot"

\* the /workspaces replies a responder may give: an error, an empty listing,
\* and two listings
DiscPayloads ==
    { [status |-> "error", data |-> << >>],
      [status |-> "ok", data |-> << >>],
      [status |-> "ok", data |-> << [name |-> EXPECTED_WS_MAIN \o QLAB5, uid |-> "idA"] >>],
      [status |-> "ok", data |-> << [name |-> EXPECTED_WS_BACKUP, uid |-> "idB"] >>] }

\* the store is left as it is
DiscoveryKeep(m) == m

\* DiscoveryStore.clear
DiscoveryClear(m) == << >>

\* _log_snapshot: the addresses of the snapshot whose reply parses to a
\* non-empty wsmap, with the wsmap
_log_snapshot(snap) ==
    [ ip \in { x \in DOMAIN snap : parse_workspaces(snap[x]) # << >> } |->
        parse_workspaces(snap[ip]) ]

\* merged[ip] = wsmap for r1, then for r2
Merged(first, second) == second @@ first

\* sorted([(ip, wsmap) for ip, wsmap in merged.items()], key=lambda x: x[0])
RECURSIVE SortedResponders(_, _)
SortedResponders(merged, i) ==
    IF i > Len(IpList) THEN << >>
    ELSE (IF IpList[i] \in DOMAIN merged
            THEN << << IpList[i], merged[IpList[i]] >> >>
          ELSE << >>) \o SortedResponders(merged, i + 1)

NotReturned == << "none" >>

DiscStart ==
    /\ _map = << >>
    /\ discPc = "start"
    /\ r1 = << >>
    /\ r2 = << >>
    /\ found = NotReturned
    /\ discLog = << >>
    /\ got1 = << >>
    /\ got2 = << >>
    /\ nAdds = 0
    /\ ledSteps = 0

\* _osc_handler for a /workspaces reply: DISCOVERY.add(src_ip, j)
discovery_add(ip, payload) ==
    /\ nAdds < MaxAdds
    /\ nAdds' = nAdds + 1
    /\ _map' = Put(_map, ip, payload)
    /\ got1' = IF discPc = "wait1" THEN Put(got1, ip, payload) ELSE got1
    /\ got2' = IF discPc = "wait2" THEN Put(got2, ip, payload) ELSE got2
    /\ UNCHANGED <<discPc, r1, r2, found, discLog, ledSteps, notDisc>>

\* DISCOVERY.clear(); broadcast /workspaces; the wait begins
discover_phase1 ==
    /\ discPc = "start"
    /\ _map' = DiscoveryClear(_map)
    /\ discLog' = << "clear", P_WORKSPACES >>
    /\ discPc' = "wait1"
    /\ UNCHANGED <<r1, r2, found, got1, got2, nAdds, ledSteps, notDisc>>

\* the wait is over: r1 = _log_snapshot("DISCOVER phase1")
discover_snapshot1 ==
    /\ discPc = "wait1"
    /\ r1' = _log_snapshot(_map)
    /\ discPc' = "phase2"
    /\ UNCHANGED <<_map, r2, found, discLog, got1, got2, nAdds, ledSteps, notDisc>>

\* DISCOVERY.clear(); broadcast the three flags and /workspaces; the wait
\* begins
discover_phase2 ==
    /\ discPc = "phase2"
    /\ _map' = DiscoveryClear(_map)
    /\ discLog' = discLog \o << "clear", P_UDP_REPLY_PORT, P_ALWAYS_REPLY,
                               P_FORGET_ME_NOT, P_WORKSPACES >>
    /\ discPc' = "wait2"
    /\ UNCHANGED <<r1, r2, found, got1, got2, nAdds, ledSteps, notDisc>>

\* the wait is over: r2 = _log_snapshot("DISCOVER phase2"), the merge and
\* the return
discover_return ==
    /\ discPc = "wait2"
    /\ r2' = _log_snapshot(_map)
    /\ found' = SortedResponders(Merged(r1, r2'), 1)
    /\ discPc' = "done"
    /\ UNCHANGED <<_map, r1, discLog, got1, got2, nAdds, ledSteps, notDisc>>

NextDiscover ==
    \/ \E ip \in IPs, payload \in DiscPayloads : discovery_add(ip, payload)
    \/ discover_phase1
    \/ discover_snapshot1
    \/ discover_phase2
    \/ discover_return

(***************************************************************************)
(* The per-role LED states on a clock (daemon.py): the supervisor's        *)
(* selection against the repair window, the missing window and last-seen.  *)
(***************************************************************************)
MaxWindowTime == 1500
MaxLedSteps == 3

WindowGaps == {400}

roleLedRest ==
    <<rolesVars, storeVars, pairVars, sendVars, inputVars, clsVars, oscVars, connVars, _map, discPc,
      r1, r2, found, discLog, got1, got2, nAdds, recBook, recRender, now, reachable, reopened, LAST_SEEN_BY_IP, RESTART_EVENT,
      healPc, healSt, healEps, supPc, supEps, ticks, pausePc, presses, runs, ended,
      healWrote, held>>

\* time passes
role_led_wait(dt) ==
    /\ monoCs + dt <= MaxWindowTime
    /\ monoCs' = monoCs + dt
    /\ UNCHANGED <<state, ROLE_BY_IP, seenCs, recLeds, _flash_until,
                   _HEAL_MISMATCH_UNTIL, _MISSING_UNTIL, ledSteps, roleLedRest>>

\* _osc_handler for a thump reply with status ok from the role's workspace:
\* mark_seen
thump_reply(role) ==
    /\ ledSteps < MaxLedSteps
    /\ ledSteps' = ledSteps + 1
    /\ Get(state, "paired", FALSE)
    /\ role \in DOMAIN load_paired_endpoints(state)
    /\ Get(seenCs, load_paired_endpoints(state)[role].ip, 0) # monoCs
    /\ seenCs' = Put(seenCs, load_paired_endpoints(state)[role].ip, monoCs)
    /\ UNCHANGED <<monoCs, state, ROLE_BY_IP, recLeds, _flash_until,
                   _HEAL_MISMATCH_UNTIL, _MISSING_UNTIL, roleLedRest>>

\* heal_reconcile_strict for a role whose workspace the remote does not
\* list: the pixel is set red and the window opened
heal_mismatch(role) ==
    /\ ledSteps < MaxLedSteps
    /\ ledSteps' = ledSteps + 1
    /\ Get(state, "paired", FALSE)
    /\ role \in DOMAIN load_paired_endpoints(state)
    /\ LET led == [steady |-> _steady, blink |-> _blink, toggle |-> _toggle]
           out == set_state(led, role, dim(C_RED), FALSE, BLINK_TOGGLE_NORM)
       IN  /\ _steady' = out.steady
           /\ _blink' = out.blink
           /\ _toggle' = out.toggle
    /\ _HEAL_MISMATCH_UNTIL' =
          [_HEAL_MISMATCH_UNTIL EXCEPT ![role] = monoCs + HEAL_MISMATCH_SEC]
    /\ UNCHANGED <<monoCs, state, ROLE_BY_IP, seenCs, _flash_until, _MISSING_UNTIL,
                   roleLedRest>>

\* heal_reconcile_strict for a role whose workspace the remote lists: the
\* window is closed and the pixel flashes
heal_match(role) ==
    /\ ledSteps < MaxLedSteps
    /\ ledSteps' = ledSteps + 1
    /\ Get(state, "paired", FALSE)
    /\ role \in DOMAIN load_paired_endpoints(state)
    /\ _HEAL_MISMATCH_UNTIL' = [_HEAL_MISMATCH_UNTIL EXCEPT ![role] = 0]
    /\ _flash_until' = [_flash_until EXCEPT ![role] = monoCs + HEAL_FLASH_SEC]
    /\ UNCHANGED <<monoCs, state, ROLE_BY_IP, seenCs, recLeds, _MISSING_UNTIL,
                   roleLedRest>>

\* run_pairing_auto: pair_auto saved the record for what the responders
\* listed, then _mark_incomplete_roles(assigned)
paired_anew(input) ==
    /\ ledSteps < MaxLedSteps
    /\ ledSteps' = ledSteps + 1
    /\ decide_roles(input).kind = "ok"
    /\ LET assigned == decide_roles(input).assigned
           st == save_paired_state(assigned, state)
       IN  /\ st # state
           /\ state' = st
           /\ ROLE_BY_IP' = refresh_role_map_from_state(st)
           /\ _MISSING_UNTIL' = _mark_incomplete_roles(assigned, monoCs)
    /\ UNCHANGED <<monoCs, seenCs, recLeds, _flash_until, _HEAL_MISMATCH_UNTIL,
                   roleLedRest>>

NextRoleLed ==
    \/ \E dt \in WindowGaps : role_led_wait(dt)
    \/ led_tick
    \/ \E role \in RoleSet : thump_reply(role)
    \/ \E role \in RoleSet : heal_mismatch(role)
    \/ \E role \in RoleSet : heal_match(role)
    \/ \E input \in LedInputs : paired_anew(input)

(***************************************************************************)
(* The connect refresh of the supervisor (core.ensure_connected through    *)
(* daemon.thump_fire and reconcile_endpoint).  A pass of run_daemon's loop  *)
(* is the pass of the watchdog section with the connects added: every role *)
(* goes through ensure_connected(ep, force=False) in the first loop, and a *)
(* reconcile that gets to its last statement through                       *)
(* ensure_connected(ep, force=True).  Time is in whole seconds.            *)
(***************************************************************************)
CONNECT_REFRESH_EVERY == 6

MaxConnTime == 14

ConnStart ==
    /\ _last = << >>
    /\ connects = << >>
    /\ okReply = << >>

\* ensure_connected: not (not force and (now - _last.get(ep.ip, 0.0)) <
\* CONNECT_REFRESH_EVERY)
ConnectDue(force, last, t) == force \/ ~((t - last) < CONNECT_REFRESH_EVERY)

\* ensure_connected on the state c threaded through a pass: connect_endpoint
\* sends /workspace/<id>/connect, and sends it again after ensure_app_flags
\* when the first one failed
ensure_connected(c, ep, force, t) ==
    IF ep.workspace_id = "" THEN c
    ELSE IF ~ConnectDue(force, Get(c.last, ep.ip, 0), t) THEN c
    ELSE [c EXCEPT !.last = Put(@, ep.ip, t),
                   !.connects = Put(@, << ep.ip, ep.workspace_id >>, t)]

\* run_daemon: for role in ROLES: if ep: thump_fire(ep), its call of
\* ensure_connected
RECURSIVE ConnectLoop(_, _, _, _)
ConnectLoop(c, eps, t, i) ==
    IF i > Len(ROLES) THEN c
    ELSE ConnectLoop(IF ROLES[i] \in DOMAIN eps
                       THEN ensure_connected(c, eps[ROLES[i]], FALSE, t)
                       ELSE c,
                     eps, t, i + 1)

\* run_daemon: the second loop's calls of ensure_connected: the last
\* statement of reconcile_endpoint, for the roles it reconciled in this pass
RECURSIVE ReconnectLoop(_, _, _, _, _)
ReconnectLoop(c, eps, answers, t, i) ==
    IF i > Len(ROLES) THEN c
    ELSE ReconnectLoop(IF /\ ROLES[i] \in DOMAIN eps
                          /\ ROLES[i] \in DOMAIN answers
                          /\ answers[ROLES[i]].outcome = "ok"
                         THEN ensure_connected(c, eps[ROLES[i]], TRUE, t)
                         ELSE c,
                       eps, answers, t, i + 1)

\* what request_workspaces may return to a reconcile of ep: nothing, or the
\* workspace under its stored identifier
ConnReplies(ep) ==
    { PyNone,
      [status |-> "ok", data |-> << [name |-> ep.workspace_name \o QLAB5,
                                     uid |-> ep.workspace_id] >>] }

ConnHeardBy(role, t) ==
    IF WillAsk(role, t) /\ state.endpoints[role].ip \in reachable
      THEN { Heard(r, load_paired_endpoints(state)[role]) :
               r \in ConnReplies(load_paired_endpoints(state)[role]) }
    ELSE { Heard(PyNone, [workspace_name |-> PyNone, workspace_id |-> PyNone]) }

\* the daemon starts its loop over a record written by pair_auto; the
\* remotes are up
ConnBoot ==
    /\ now = 0
    /\ reachable = IPs
    /\ reopened = 0
    /\ state \in RecordsOf(LedInputs) \ { << >> }
    /\ LAST_SEEN_BY_IP = << >>
    /\ _last_thump_sent = << >>
    /\ _last_reconcile = << >>
    /\ _offline_backoff = << >>
    /\ _offline_next_try = << >>
    /\ thumps = << >>
    /\ asks = << >>
    /\ fails = << >>
    /\ answered = << >>

connOthers ==
    <<rolesVars, storeVars, pairVars, sendVars, ledVars, recVars, inputVars, clsVars,
      oscVars, discVars>>

\* run_daemon: one pass of the loop over a paired record, dt after the one
\* before
connect_pass(dt) ==
    /\ Get(state, "paired", FALSE)
    /\ now + dt <= MaxConnTime
    /\ now' = now + dt
    /\ \E hm \in ConnHeardBy("main", now + dt), hb \in ConnHeardBy("backup", now + dt),
          ha \in ConnHeardBy("aux", now + dt) :
         LET heard == [main |-> hm, backup |-> hb, aux |-> ha]
             eps == _inject_last_seen(load_paired_endpoints(state))
             w0 == [last_thump_sent |-> _last_thump_sent,
                    last_reconcile |-> _last_reconcile,
                    offline_backoff |-> _offline_backoff,
                    offline_next_try |-> _offline_next_try,
                    st |-> state, thumps |-> thumps, asks |-> asks,
                    fails |-> fails, answered |-> << >>]
             w1 == ThumpLoop(w0, eps, now + dt, 1)
             w2 == WatchLoop(w1, eps, heard, now + dt, 1)
             c0 == [last |-> _last, connects |-> connects]
             c1 == ConnectLoop(c0, eps, now + dt, 1)
             c2 == ReconnectLoop(c1, load_paired_endpoints(w2.st), w2.answered,
                                 now + dt, 1)
         IN  /\ _last_thump_sent' = w2.last_thump_sent
             /\ _last_reconcile' = w2.last_reconcile
             /\ _offline_backoff' = w2.offline_backoff
             /\ _offline_next_try' = w2.offline_next_try
             /\ state' = w2.st
             /\ thumps' = w2.thumps
             /\ asks' = w2.asks
             /\ fails' = w2.fails
             /\ answered' = w2.answered
             /\ _last' = c2.last
             /\ connects' = c2.connects
    /\ UNCHANGED <<reachable, reopened, LAST_SEEN_BY_IP, okReply, connOthers>>

\* the workspaces the daemon sends its thumps and connects to
Addressed ==
    { << ep.ip, ep.workspace_id >> :
        ep \in { load_paired_endpoints(state)[r] : r \in DOMAIN load_paired_endpoints(state) } }

\* _osc_handler for the reply to a connect or a thump sent to the workspace
\* wsid at src_ip: with status ok, mark_seen(src_ip)
osc_reply(src_ip, wsid, status) ==
    /\ << src_ip, wsid >> \in Addressed
    /\ src_ip \in reachable
    /\ LAST_SEEN_BY_IP' = IF status = "ok" THEN Put(LAST_SEEN_BY_IP, src_ip, now)
                          ELSE LAST_SEEN_BY_IP
    /\ okReply' = IF status = "ok" THEN Put(okReply, << src_ip, wsid >>, now)
                  ELSE okReply
    /\ UNCHANGED <<now, reachable, reopened, state, _last_thump_sent, _last_reconcile,
                   _offline_backoff, _offline_next_try, thumps, asks, fails,
                   answered, _last, connects, connOthers>>

\* the passes of the supervisor and the replies of the remotes
NextConnect ==
    \/ \E dt \in PassGaps : connect_pass(dt)
    \/ \E src_ip \in IPs, wsid \in {"idA", "idB"}, status \in ReplyStatuses :
           osc_reply(src_ip, wsid, status)

(***************************************************************************)
(* Specifications.  Each one runs one part of the program and leaves the   *)
(* other parts in their initial state.                                     *)
(***************************************************************************)
InitRoles == RolesInit /\ StoreStart(TRUE) /\ WatchStart /\ PairStart
    /\ SendStart /\ LedStart /\ RecStart /\ InputStart /\ ClsStart /\ OscStart /\ DiscStart /\ ConnStart

SpecRoles == InitRoles /\ [][NextRoles]_vars

InitStore ==
    \E present \in BOOLEAN :
        StoreStart(present) /\ RolesInit /\ WatchStart /\ PairStart
        /\ SendStart /\ LedStart /\ RecStart /\ InputStart /\ ClsStart /\ OscStart /\ DiscStart /\ ConnStart

SpecStore == InitStore /\ [][NextStore]_vars

InitWatch == WatchBoot /\ RolesInit /\ StoreStart(TRUE) /\ PairStart
    /\ SendStart /\ LedStart /\ RecStart /\ InputStart /\ ClsStart /\ OscStart /\ DiscStart /\ ConnStart

SpecWatch == InitWatch /\ [][NextWatch]_vars

InitPair == PairStart /\ RolesInit /\ StoreStart(TRUE) /\ WatchStart
    /\ SendStart /\ LedStart /\ RecStart /\ InputStart /\ ClsStart /\ OscStart /\ DiscStart /\ ConnStart

SpecPair == InitPair /\ [][NextPair]_vars

InitSend == SendStart /\ RolesInit /\ StoreStart(TRUE) /\ WatchStart /\ PairStart
    /\ LedStart /\ RecStart /\ InputStart /\ ClsStart /\ OscStart /\ DiscStart /\ ConnStart

SpecSend == InitSend /\ [][NextSend]_vars

\* the worker is a thread of its own: an iteration with a message waiting is
\* taken sooner or later
SpecSendLive == InitSend /\ [][NextSend]_vars /\ WF_vars(SendWorker_run)

InitLed == LedBoot(RecordsOf({SoloInput})) /\ RolesInit /\ StoreStart(TRUE) /\ PairStart /\ SendStart /\ RecStart
    /\ InputStart /\ ClsStart /\ OscStart /\ DiscStart /\ ConnStart

SpecLed == InitLed /\ [][NextLed]_vars

InitLedSelect == LedBoot(RecordsOf(LedInputs)) /\ RolesInit /\ StoreStart(TRUE) /\ PairStart /\ SendStart /\ RecStart
    /\ InputStart /\ ClsStart /\ OscStart /\ DiscStart /\ ConnStart

SpecLedSelect == InitLedSelect /\ [][NextLedSelect]_vars

InitRecord == RecBoot /\ RecStart /\ RolesInit /\ StoreStart(TRUE) /\ PairStart /\ SendStart
    /\ InputStart /\ ClsStart /\ OscStart /\ DiscStart /\ ConnStart
SpecRecord == InitRecord /\ [][NextRecord]_vars

InitInput == RecBoot /\ RecStart /\ RolesInit /\ StoreStart(TRUE) /\ PairStart /\ SendStart
    /\ InputStart /\ ClsStart /\ OscStart /\ DiscStart /\ ConnStart

SpecInput == InitInput /\ [][NextInput]_vars

SpecTick == InitInput /\ [][NextTick]_vars

InitClassify ==
    /\ wsName \in ClassNames
    /\ classified = NotClassified
    /\ RolesInit /\ StoreStart(TRUE) /\ WatchStart /\ PairStart /\ SendStart /\ LedStart
    /\ RecStart /\ InputStart /\ OscStart /\ DiscStart /\ ConnStart

SpecClassify == InitClassify /\ [][NextClassify]_vars

SpecBases == InitRoles /\ [][NextBases]_vars

InitOsc ==
    /\ RolesInit /\ StoreStart(TRUE) /\ WatchStart /\ PairStart /\ SendStart /\ RecStart
    /\ InputStart /\ ClsStart /\ DiscStart /\ ConnStart
    /\ monoCs = 1
    /\ _steady = [r \in RoleSet |-> dim(C_OFF)]
    /\ _blink = [r \in RoleSet |-> FALSE]
    /\ _toggle = [r \in RoleSet |-> BLINK_TOGGLE_NORM]
    /\ _flash_until = [r \in RoleSet |-> 0]
    /\ _fade_start = [r \in RoleSet |-> 0]
    /\ _fade_from = [r \in RoleSet |-> dim(C_OFF)]
    /\ _last_rendered = [r \in RoleSet |-> dim(C_OFF)]
    /\ _flash_active = [r \in RoleSet |-> FALSE]
    /\ seenCs = << >>
    /\ rendered = [r \in RoleSet |-> NotRendered]
    /\ ticked = NotTicked
    /\ acked = NotAcked
    /\ ackCount = 0
    /\ OscBoot

SpecOsc == InitOsc /\ [][NextOsc]_vars

SpecWaiter == InitOsc /\ [][NextWaiter]_vars

SpecDiscover == InitSend /\ [][NextDiscover]_vars

SpecRoleLed == InitLedSelect /\ [][NextRoleLed]_vars

InitConnect ==
    /\ ConnBoot /\ RolesInit /\ StoreStart(TRUE) /\ PairStart /\ SendStart /\ LedStart
    /\ RecStart /\ InputStart /\ ClsStart /\ OscStart /\ DiscStart /\ ConnStart

SpecConnect == InitConnect /\ [][NextConnect]_vars

(***************************************************************************)
(* Properties of StateManager (checked under SpecStore).                   *)
(***************************************************************************)
TargetFile == inodes[fsDir[StatePath]]

\* C5: StateManager.save is atomic for readers of the backing file: the
\* file at the target path, whenever it exists, holds one complete record,
\* the one last renamed over it; a reader that takes no lock reads a
\* complete record that the file held at or after its open (the record from
\* before a save or the one from after it), never a partial or truncated
\* one; and load returns the record the file holds.
C5_SaveAtomicForReaders ==
    /\ fsDir[StatePath] # NoIno =>
           Complete(TargetFile) /\ TargetFile.data = committed
    /\ reader.pc = "done" => ~reader.torn /\ reader.rec \in reader.allowed
    /\ loaded.rec = loaded.file

\* the reader opened the file before a save renamed over it and read after
C5_Witness ==
    /\ reader.pc = "done"
    /\ Cardinality(reader.allowed) > 1
    /\ \E t \in Threads : saver[t].pc = "stat"

(***************************************************************************)
(* Properties of decide_roles (checked under SpecRoles).                   *)
(***************************************************************************)
Decided == outcome # NotDecided

KindOf(a) == _classify(a.ws_name)[1]
BaseOf(a) == _classify(a.ws_name)[2]
HasId(a) == a.ws_id # ""
EndpointOf(a, role) == Endpoint(a.ip, role, a.ws_name, a.ws_id)

\* two responders at different addresses advertise the same name of kind k
SameNameTwice(k, A) ==
    \E a, b \in A : a.ip # b.ip /\ a.ws_name = b.ws_name /\ KindOf(a) = k

\* two distinct candidates of kind k share a base
SameBaseTwice(k, A) ==
    \E a, b \in A : a # b /\ KindOf(a) = k /\ KindOf(b) = k /\ BaseOf(a) = BaseOf(b)

Candidates == { a \in adverts : HasId(a) }

\* C1 as stated: whenever two responders at different addresses advertise
\* the same primary-tagged workspace name, decide_roles raises ConflictError
\* (and likewise for two backup-tagged candidates of one base).
C1_AsStated ==
    Decided /\ (SameNameTwice("main", adverts) \/ SameBaseTwice("backup", Candidates))
        => outcome.kind = "ConflictError"

\* C1 amended: whenever two responders at different addresses advertise the
\* same primary-tagged workspace name, each with a non-empty identifier,
\* decide_roles raises ConflictError and returns no assignment; the same
\* holds for two backup-tagged candidates of the same base.
C1_DuplicateRoleConflict ==
    Decided /\ (SameNameTwice("main", Candidates) \/ SameBaseTwice("backup", Candidates))
        => outcome = Raise("ConflictError")

C1_Witness ==
    /\ Decided
    /\ SameNameTwice("main", Candidates)
    /\ outcome.kind = "ConflictError"

\* the input class of C2: the tagged workspaces are one primary candidate and
\* one backup candidate of one base, everything else is plain
OnePairAndPlains(m, b) ==
    /\ m \in Candidates /\ b \in Candidates
    /\ KindOf(m) = "main" /\ KindOf(b) = "backup"
    /\ BaseOf(m) = BaseOf(b)
    /\ \A a \in adverts \ {m, b} : KindOf(a) = "plain"

\* C2: when the input holds exactly one base with both a primary and a backup
\* candidate plus any number of plain workspaces, decide_roles succeeds with
\* main = the primary candidate and backup = the backup candidate (address,
\* name, id) and assigns no plain workspace to any role.
C2_PairSelectedPlainsIgnored ==
    \A m, b \in adverts :
        Decided /\ OnePairAndPlains(m, b) =>
            /\ outcome.kind = "ok"
            /\ DOMAIN outcome.assigned = {"main", "backup"}
            /\ outcome.assigned["main"] = EndpointOf(m, "main")
            /\ outcome.assigned["backup"] = EndpointOf(b, "backup")

C2_Witness ==
    \E m, b, p \in adverts :
        /\ Decided /\ OnePairAndPlains(m, b)
        /\ KindOf(p) = "plain" /\ HasId(p)
        /\ m.ip # b.ip
        /\ outcome.kind = "ok"

AllPlain == \A a \in adverts : KindOf(a) = "plain"

PlainOutcome(plains) ==
    /\ Cardinality(plains) = 0 => outcome.kind = "NoRespondersError"
    /\ Cardinality(plains) > 1 => outcome.kind = "ConflictError"
    /\ Cardinality(plains) = 1 =>
          \A p \in plains : outcome = Ok("main" :> EndpointOf(p, "main"))

\* C3 as stated: on an all-plain input decide_roles succeeds iff there is
\* exactly one plain workspace (main = that workspace, nothing else); more
\* than one gives ConflictError and none gives NoRespondersError.
C3_AsStated == Decided /\ AllPlain => PlainOutcome(adverts)

\* C3 amended: on an all-plain input decide_roles succeeds iff exactly one
\* plain workspace has a non-empty identifier, in which case main is that
\* workspace and no backup and no auxiliary is assigned; with more than one
\* such workspace it raises ConflictError and with none NoRespondersError.
C3_PlainFallback == Decided /\ AllPlain => PlainOutcome(Candidates)

C3_Witness ==
    /\ Decided /\ AllPlain
    /\ Cardinality(Candidates) = 2
    /\ outcome.kind = "ConflictError"

AuxCandidates == { a \in Candidates : KindOf(a) = "aux" }

\* C4: more than one auxiliary candidate (on one address or on several) gives
\* ConflictError whatever the primary/backup candidates are; exactly one, with
\* a primary assigned, is returned as aux; none gives no aux entry.
C4_AuxUniqueOrConflict ==
    Decided =>
        /\ Cardinality(AuxCandidates) > 1 => outcome.kind = "ConflictError"
        /\ Cardinality(AuxCandidates) = 1 /\ outcome.kind = "ok" =>
              /\ "main" \in DOMAIN outcome.assigned
              /\ "aux" \in DOMAIN outcome.assigned
              /\ \A x \in AuxCandidates : outcome.assigned["aux"] = EndpointOf(x, "aux")
        /\ Cardinality(AuxCandidates) = 0 => "aux" \notin DOMAIN outcome.assigned

C4_Witness ==
    \E x, y, m, b \in Candidates :
        /\ Decided
        /\ x # y /\ x.ip = y.ip /\ KindOf(x) = "aux" /\ KindOf(y) = "aux"
        /\ KindOf(m) = "main" /\ KindOf(b) = "backup" /\ BaseOf(m) = BaseOf(b)
        /\ outcome.kind = "ConflictError"

(***************************************************************************)
(* Properties of the watchdog and of reconcile (checked under SpecWatch).  *)
(***************************************************************************)
\* C6: for every (ip, workspace id), two thumps enqueued one after the other
\* by thump_fire are at least HEARTBEAT_INTERVAL (2 s) apart.
C6_ThumpsHeartbeatApart ==
    \A k \in DOMAIN thumps :
        Len(thumps[k]) = 2 => thumps[k][2] - thumps[k][1] >= HEARTBEAT_INTERVAL

\* two thumps went out for a key, and a pass one second after the second
\* sent none
C6_Witness ==
    \E k \in DOMAIN thumps :
        /\ Len(thumps[k]) = 2
        /\ now = thumps[k][2] + 1
        /\ k[2] = state.endpoints["main"].workspace_id
        /\ "main" \in DOMAIN answered

\* C7: for every role, a /workspaces request of reconcile_endpoint never
\* follows the one before by less than RECONCILE_EVERY (5 s), and none is
\* sent while now < next_try of the role.
C7_ReconcileThrottledAndGated ==
    \A role \in DOMAIN asks : ~asks[role].early /\ ~asks[role].gated

\* a role has failed three times, 5 s have gone by since its last request,
\* and the pass of this second sent none because next_try is still ahead
C7_Witness ==
    \E role \in DOMAIN asks :
        /\ Get(fails, role, 0) = 3
        /\ now >= asks[role].last + RECONCILE_EVERY
        /\ now < Get(_offline_next_try, role, 0)
        /\ role \notin DOMAIN answered

\* the backoff the claim gives after n failed attempts in a row
ClaimedBackoff(n) ==
    IF n = 0 THEN 0 ELSE << 2, 4, 8, 16, 20 >>[Min(n, 5)]

\* C8: for every role the backoff is 2, 4, 8, 16, 20, 20, ... s after 1, 2,
\* 3, ... failed reconcile attempts in a row (each of no reply, unparseable
\* listing, name absent, empty identifier counts once), and it is 0, with
\* next_try 0, when the last attempt succeeded or the role was seen online.
C8_BackoffSequence ==
    \A role \in RoleSet :
        /\ Get(_offline_backoff, role, 0) = ClaimedBackoff(Get(fails, role, 0))
        /\ Get(fails, role, 0) = 0 => Get(_offline_next_try, role, 0) = 0

\* the role of the remote that is up has failed five times in a row, the
\* last time on an empty identifier, and its backoff is at the ceiling
C8_Witness ==
    \E role \in DOMAIN answered :
        /\ state.endpoints[role].ip \in reachable
        /\ fails[role] = 5
        /\ answered[role].outcome = "empty_id"
        /\ _offline_backoff[role] = OFFLINE_BACKOFF_MAX

\* C9: when a reconcile request of a role is answered with the workspace name
\* of the role listed under one identifier, not empty and not the stored one,
\* the record persisted when the call returns holds that identifier for the
\* role, with its name and address as before, and the entries of the other
\* roles as before.
C9_IdChangePersisted ==
    \A role \in DOMAIN answered :
        "want" \in DOMAIN answered[role] =>
            LET a == answered[role]
            IN  /\ role \in DOMAIN a.after
                /\ a.after[role].workspace_id = a.want
                /\ a.after[role].workspace_name = a.before[role].workspace_name
                /\ DOMAIN a.after[role] = DOMAIN a.before[role]
                /\ a.after[role].ip = a.before[role].ip
                /\ DOMAIN a.after = DOMAIN a.before
                /\ \A other \in DOMAIN a.before \ {role} :
                       a.after[other] = a.before[other]
                /\ state.endpoints[role] = a.after[role]

\* the remote reopened its workspace and the reconcile of its role stored
\* the new identifier
C9_Witness ==
    \E role \in DOMAIN answered :
        /\ "want" \in DOMAIN answered[role]
        /\ answered[role].want = WsIds[2]
        /\ answered[role].before[role].workspace_id = WsIds[1]
        /\ state.endpoints[role].workspace_id = WsIds[2]

HandedOf(c, ip) == { i \in DOMAIN handed : handed[i].by = c /\ handed[i].ip = ip }

\* C15: the messages one thread enqueues for one address reach the UDP
\* client in the order that thread enqueued them: of two such messages the
\* one handed over first is the one enqueued first.
C15_FifoPerCallerAndAddress ==
    \A c \in SendCallers, ip \in IPs :
        \A i, j \in HandedOf(c, ip) : i < j => handed[i].n < handed[j].n

\* two messages of one thread for one address have been handed over, with a
\* message of the other thread between them
C15_Witness ==
    \E i, j, k \in DOMAIN handed :
        /\ i < k /\ k < j
        /\ handed[i].by = handed[j].by /\ handed[i].ip = handed[j].ip
        /\ handed[k].by # handed[i].by

\* C16: the queue never holds more than its capacity; a send that finds the
\* queue full returns with the message dropped and the queue as it was, and
\* a send that finds room appends its message.
C16_QueueBoundedDropOnFull ==
    /\ Len(q) <= QueueCap
    /\ put.result # "none" =>
         /\ put.result = "dropped" <=> Len(put.before) = QueueCap
         /\ put.result = "dropped" => put.after = put.before
         /\ put.result = "queued" => put.after = Append(put.before, put.msg)

\* a send has found the queue full
C16_Witness ==
    /\ put.result = "dropped"
    /\ Len(put.before) = QueueCap
    /\ Len(q) = QueueCap

\* the message number n of thread c is in the queue
Queued(c, n) == \E i \in DOMAIN q : q[i].by = c /\ q[i].n = n

\* the places of `handed` that hold the message number n of thread c
HandedAt(c, n) == { i \in DOMAIN handed : handed[i].by = c /\ handed[i].n = n }

\* C40: every message accepted into the queue is eventually handed to the
\* UDP client, and never more than once, under weak fairness on the worker;
\* an error of send_message on one message does not stop the worker and
\* neither prevents nor repeats the sending of the messages queued after it
C40_EachMessageSentOnce ==
    /\ [](\A c \in SendCallers, n \in 1..MaxSends : Cardinality(HandedAt(c, n)) <= 1)
    /\ \A c \in SendCallers, n \in 1..MaxSends :
           Queued(c, n) ~> (~Queued(c, n) /\ Cardinality(HandedAt(c, n)) = 1)

\* send_message raised on a message, and the message queued behind it was
\* handed to the client after it, each once
C40_Witness ==
    /\ Len(handed) >= 2
    /\ handed[1] \in raisedOn
    /\ handed[2] \notin raisedOn
    /\ put.result = "queued"
    /\ Len(put.before) >= 1
    /\ put.before[1] = handed[1]
    /\ put.msg = handed[2]
    /\ alive

(***************************************************************************)
(* Properties of the LEDs (checked under SpecLedSelect and SpecLed).       *)
(***************************************************************************)

\* the state of the pixel of a role, as set_state leaves it
PixelState(r) == [steady |-> _steady[r], blink |-> _blink[r], toggle |-> _toggle[r]]

Steady(c) == { [steady |-> c, blink |-> FALSE, toggle |-> t] : t \in {BLINK_TOGGLE_NORM} }

Blinking(c, t) == { [steady |-> c, blink |-> TRUE, toggle |-> t] }

\* the states set_led_role_state gives a pixel
RoleStateSet ==
    Steady(dim(C_GREEN)) \cup Steady(dim(C_RED)) \cup Steady(dim(C_OFF))
        \cup Blinking(dim(C_RED), BLINK_TOGGLE_NORM)

C12_FlashOnOwnPixel ==
    acked.heard => acked.flashed = {acked.from}

\* the renderer's last pass for a role
Pass(r) == rendered[r]

Passed(r) == rendered[r].phase # "none"

\* x lies between a and b
Between(x, a, b) == (a <= x /\ x <= b) \/ (b <= x /\ x <= a)

\* colour c is the linear interpolation from a to b at dt of
\* ACK_RETURN_FADE_SEC, each component cut to a whole number
Interpolated(c, a, b, dt) ==
    \A i \in 1..3 :
        /\ Between(c[i], a[i], b[i])
        /\ LET exact == a[i] * ACK_RETURN_FADE_SEC + (b[i] - a[i]) * dt
               got == c[i] * ACK_RETURN_FADE_SEC
           IN  got <= exact /\ exact <= got + ACK_RETURN_FADE_SEC

\* C13: for a pixel whose steady colour does not blink, a pass before the
\* flash expiry renders the flash colour; the first pass after the expiry
\* starts a fade at that time from the colour last rendered (the flash
\* colour); a pass less than 0.25 s after the fade start renders the
\* interpolation from the flash colour to the steady colour; a later pass
\* renders the steady colour.  The phases follow one another as flash, fade,
\* steady: a flash is never followed by steady, and a fade ends only 0.25 s
\* after its start or with a new flash.
C13_FlashFadeSteady ==
    \A r \in RoleSet :
        (Passed(r) /\ ~Pass(r).blink) =>
            /\ Pass(r).at < Pass(r).until =>
                 Pass(r).phase = "flash" /\ Pass(r).color = dim(C_BLUE)
            /\ Pass(r).phase = "flash" => Pass(r).at < Pass(r).until
            /\ (Pass(r).prev = "flash" /\ Pass(r).at >= Pass(r).until) =>
                 /\ Pass(r).phase = "fade"
                 /\ Pass(r).fade_start = Pass(r).at
                 /\ Pass(r).fade_from = Pass(r).before
                 /\ Pass(r).fade_from = dim(C_BLUE)
                 /\ Pass(r).color = dim(C_BLUE)
            /\ Pass(r).phase = "fade" =>
                 /\ Pass(r).prev \in {"flash", "fade"}
                 /\ Pass(r).at - Pass(r).fade_start < ACK_RETURN_FADE_SEC
                 /\ Interpolated(Pass(r).color, dim(C_BLUE), Pass(r).steady,
                                 Pass(r).at - Pass(r).fade_start)
            /\ Pass(r).phase = "steady" =>
                 /\ Pass(r).color = Pass(r).steady
                 /\ Pass(r).prev # "flash"
                 /\ Pass(r).prev = "fade" =>
                      Pass(r).at - Pass(r).fade_was >= ACK_RETURN_FADE_SEC

\* a pixel with a steady green has come back to green after a flash and its
\* fade
C13_Witness ==
    \E r \in RoleSet :
        /\ Passed(r) /\ ~Pass(r).blink
        /\ Pass(r).phase = "steady" /\ Pass(r).prev = "fade"
        /\ Pass(r).steady = dim(C_GREEN)
        /\ Pass(r).color = dim(C_GREEN)
        /\ Pass(r).fade_from = dim(C_BLUE)

\* C14: a pass with neither a flash nor a fade active renders, for a
\* blinking pixel of half-period T, the steady colour when floor(now / T) is
\* even and off when it is odd, and for a pixel that does not blink the
\* steady colour.
C14_BlinkParity ==
    \A r \in RoleSet :
        (Passed(r) /\ Pass(r).phase = "steady") =>
            Pass(r).color =
                IF Pass(r).blink
                  THEN IF (Pass(r).at \div Pass(r).toggle) % 2 = 0
                         THEN Pass(r).steady ELSE << 0, 0, 0 >>
                  ELSE Pass(r).steady

\* a blinking pixel has been rendered off in an odd half-period
C14_Witness ==
    \E r \in RoleSet :
        /\ Passed(r) /\ Pass(r).phase = "steady" /\ Pass(r).blink
        /\ (Pass(r).at \div Pass(r).toggle) % 2 = 1
        /\ Pass(r).steady # << 0, 0, 0 >>
        /\ Pass(r).color = << 0, 0, 0 >>

(***************************************************************************)
(* Properties of the persisted record and its writers.                     *)
(***************************************************************************)
\* the run of thread t ended in `kind` and left the record alone: the record
\* after the except clause is the record before pair_auto's last statement,
\* and the record the thread started over unless another thread saved since
LeftAlone(e) == e.after = e.before /\ (~e.dirty => e.after = e.start)

\* C17: a pairing run that ends in NoRespondersError sets the fatal flag,
\* leaves the conflict flag clear and the record as it was when the run
\* started; one that ends in ConflictError sets the conflict flag, leaves
\* the fatal flag clear and the record as it was; save_paired_state is not
\* reached in either
C17_FailedRunLeavesRecord ==
    \A t \in RecCallers :
        /\ ended[t].result = "NoRespondersError" =>
              ended[t].fatal /\ ~ended[t].conflict /\ LeftAlone(ended[t])
        /\ ended[t].result = "ConflictError" =>
              ended[t].conflict /\ ~ended[t].fatal /\ LeftAlone(ended[t])

\* a run ended without responders, another in a conflict with no save by any
\* other thread in between
C17_Witness ==
    /\ ended["short"].result = "NoRespondersError"
    /\ ended["held"].result = "ConflictError"
    /\ ~ended["held"].dirty

\* the record has an entry for the role with an address and an identifier
HasEntry(st, role) ==
    LET eps == Get(st, "endpoints", << >>)
    IN  /\ role \in DOMAIN eps
        /\ {"ip", "workspace_id"} \subseteq DOMAIN eps[role]
        /\ eps[role].ip # ""
        /\ eps[role].workspace_id # ""

\* C18: whenever the record says paired, its endpoints hold a main entry
\* with an address and a workspace identifier, whatever the interleaving of
\* pairing, force-unpair, reconcile, repair and pause toggle
C18_PairedHasMain == Get(state, "paired", FALSE) => HasEntry(state, "main")

\* a paired record after a long press, a repair that saved and a reconcile
\* that stored an identifier
C18_Witness ==
    /\ Get(state, "paired", FALSE)
    /\ held.fired
    /\ healWrote.happened
    /\ \E role \in DOMAIN answered : "want" \in DOMAIN answered[role]

\* the name and the address the record has for the role, None where it has
\* none
NameIp(st, role) ==
    LET eps == Get(st, "endpoints", << >>)
    IN  IF role \in DOMAIN eps
          THEN << Get(eps[role], "workspace_name", PyNone), Get(eps[role], "ip", PyNone) >>
        ELSE << PyNone, PyNone >>

\* C19: a save of heal_reconcile_strict leaves every role's workspace name
\* and address in the record as they were
C19_HealKeepsNameAndIp ==
    healWrote.happened =>
        \A role \in RoleSet :
            NameIp(healWrote.after, role) = NameIp(healWrote.before, role)

\* C20 (as the code has it): a hold of the pair button purges the record
\* and starts run_pairing_auto; the restart flag stays clear and the loop
\* does not restart
C20_HoldForcesDiscovery ==
    /\ ~RESTART_EVENT
    /\ supPc # "restarted"
    /\ held.fired =>
          /\ ~Get(held.record, "paired", FALSE)
          /\ "endpoints" \notin DOMAIN held.record
          /\ held.target = "run_pairing_auto"

\* the button was held over a paired record, and the loop has run an
\* iteration while the pairing thread it started was active
C20_Witness ==
    /\ held.fired
    /\ Get(held.before, "paired", FALSE)
    /\ pairPc["held"] = "finally"
    /\ supPc = "top"
    /\ _blink["main"]
    /\ _toggle["main"] = BLINK_TOGGLE_FAST

\* C20 as stated: a hold of the pair button sets the restart flag
C20_AsStated == held.fired => RESTART_EVENT

\* the identifier the record has for the role, as a set: empty where it has
\* none
WsidIn(st, role) ==
    LET eps == Get(st, "endpoints", << >>)
    IN  IF role \in DOMAIN eps /\ "workspace_id" \in DOMAIN eps[role]
          THEN { eps[role].workspace_id }
        ELSE {}

\* C36: updates of the persisted record made by different threads are never
\* lost: a save of heal_reconcile_strict over a paired record leaves the
\* paused flag as pause_toggle last wrote it and leaves the identifier of
\* every role it is not repairing as reconcile_endpoint last stored it
C36_NoLostUpdate ==
    healWrote.happened /\ Get(healWrote.before, "paired", FALSE) =>
        /\ Get(healWrote.after, "paused", FALSE) = Get(healWrote.before, "paused", FALSE)
        /\ \A role \in RoleSet \ {healWrote.role} :
               WsidIn(healWrote.after, role) = WsidIn(healWrote.before, role)

\* the record is unpaired: no paired flag and no endpoint that
\* load_paired_endpoints would return
Unpaired(st) ==
    /\ ~Get(st, "paired", FALSE)
    /\ DOMAIN load_paired_endpoints(st) = {}

\* a pairing thread runs pair_auto's last statements, save_paired_state
\* among them
PairingSaves == \E t \in RecCallers : pairPc[t] = "decide" /\ pairPc'[t] = "finally"

\* C37: once force_unpair_state has purged the record, the record stays
\* unpaired until a pairing run reaches save_paired_state: no step of a
\* repair, a reconcile or a pause toggle that was in progress turns an
\* unpaired record into a paired one or gives it usable endpoints
C37_UnpairedUntilPaired ==
    [][Unpaired(state) /\ ~PairingSaves => Unpaired(state')]_vars

(***************************************************************************)
(* Properties of the input layer.                                          *)
(***************************************************************************)
\* what the hold or release e of the pair switch started: a thread on
\* heal_reconcile_strict, a thread on run_pairing_auto
StartedHeal(e) == e.heal[1] # "load" /\ e.heal[2] = "load"

StartedPairing(e) == \E t \in RecCallers : e.pairing[1][t] # "lock" /\ e.pairing[2][t] = "lock"

\* the release e came less than PAIR_SHORT_MIN_DT after the last accepted
\* release of its kind
TooSoon(e) ==
    LET key == IF Get(e.before, "paired", FALSE) THEN "pair_short_heal" ELSE "pair_short"
    IN  e.at - Get(e.last_fire, key, 0) < PAIR_SHORT_MIN_DT

\* C21 (with the guard of the release): a release after the hold of the
\* same press starts nothing and leaves the record alone; a release without
\* hold starts heal_reconcile_strict over a paired record and
\* run_pairing_auto (never the heal) over an unpaired one, unless the last
\* accepted release of its kind is less than 0.5 s old, and then it starts
\* nothing; a hold purges the record and starts run_pairing_auto; a release
\* over a paired record never starts run_pairing_auto
C21_PairSwitchEvents ==
    /\ pairEvent.event = "released" =>
          /\ pairEvent.after = pairEvent.before
          /\ pairEvent.held_fired => ~StartedHeal(pairEvent) /\ ~StartedPairing(pairEvent)
          /\ ~pairEvent.held_fired /\ Get(pairEvent.before, "paired", FALSE) =>
                /\ ~StartedPairing(pairEvent)
                /\ StartedHeal(pairEvent) <=> ~TooSoon(pairEvent)
          /\ ~pairEvent.held_fired /\ ~Get(pairEvent.before, "paired", FALSE) =>
                /\ ~StartedHeal(pairEvent)
                /\ StartedPairing(pairEvent) <=> ~TooSoon(pairEvent)
    /\ pairEvent.event = "held" =>
          /\ ~Get(pairEvent.after, "paired", FALSE)
          /\ "endpoints" \notin DOMAIN pairEvent.after
          /\ StartedPairing(pairEvent)
          /\ ~StartedHeal(pairEvent)

\* the switch was released after a hold over a paired record, with the
\* pairing thread of the hold started
C21_Witness ==
    /\ pairEvent.event = "released"
    /\ pairEvent.held_fired
    /\ held.fired
    /\ Get(held.before, "paired", FALSE)
    /\ pairPc["held"] = "lock"

\* C21 as stated: every release without hold starts the heal over a paired
\* record and the pairing over an unpaired one
C21_AsStated ==
    pairEvent.event = "released" /\ ~pairEvent.held_fired =>
        IF Get(pairEvent.before, "paired", FALSE)
          THEN StartedHeal(pairEvent)
        ELSE StartedPairing(pairEvent)

\* C22: for each of the keys go, pause, panic, up and down, two fires that
\* edge_guard accepted are at least BTN_HOLD_IGNORE (250 ms) apart; a fire
\* less than that after the key's last accepted fire is rejected, gives no
\* message to the send queue and leaves the key's timestamp where it was
C22_FiresApart ==
    /\ \A key \in DOMAIN fires :
          Len(fires[key]) = 2 => fires[key][2] - fires[key][1] >= BTN_HOLD_IGNORE
    /\ call.key \in ActionKeys /\ call.at - call.last_before < BTN_HOLD_IGNORE =>
          /\ ~call.ok
          /\ call.box_after = call.box_before
          /\ call.last_after = call.last_before
          /\ call.after = call.before

\* a key fired over a paired record, its callback came back, and it fired
\* again a tenth of a second later
C22_Witness ==
    /\ call.key \in ActionKeys
    /\ call.paired
    /\ ~call.ok
    /\ call.last_before > 0
    /\ call.last_before < call.at
    /\ Len(outbox) > 0
    /\ cb[ThreadOf(call.key)].pc = "idle"

\* C23: an action callback (go, pause, panic, select next, select previous)
\* gives its messages to the send queue and returns without waiting for a
\* reply or for a reply timeout: no callback is ever at the wait of a
\* waiter event
C23_CallbackNeverWaits == \A th \in InputThreads : cb[th].pc # "wait"

\* C24: an action button, an encoder event or a heal over a record that is
\* not paired sends no message, changes no state, and its not-paired error
\* stays inside the handler: no error leaves the callback or the heal
\* thread
C24_NotPairedSwallowed ==
    /\ ~escaped["buttons"]
    /\ ~escaped["encoder"]
    /\ ~escaped["heal"]
    /\ call.key \in ActionKeys /\ ~call.paired =>
          /\ call.box_after = call.box_before
          /\ call.after = call.before
          /\ ~call.raised

\* C25: no error stops the supervisor's loop: when the record is purged
\* between the loop's own load and load_paired_endpoints, the loop shows
\* the fatal-fail pattern and goes on; run_daemon is never left
C25_LoopSurvives == supPc # "exited" /\ ~escaped["run_daemon"]

(***************************************************************************)
(* Properties of the classification and of the choice of a base.           *)
(***************************************************************************)
\* the name is some text followed by the suffix
HasSuffix(name, suffix) ==
    \E k \in 0..Len(name) : SubSeq(name, 1, k) \o suffix = name

LegacyNames == {EXPECTED_WS_MAIN, EXPECTED_WS_BACKUP}

NoSuffix(name) ==
    /\ ~HasSuffix(name, SUFFIX_MAIN)
    /\ ~HasSuffix(name, SUFFIX_BACKUP)
    /\ ~HasSuffix(name, SUFFIX_AUX1)

\* the classification is of the kind, with the base followed by the suffix
\* spelling the name
Tagged(kind, suffix) == classified.kind = kind /\ classified.base \o suffix = wsName

\* C26 (with the order of the tests): a name equal to the legacy expected
\* primary (backup) constant is primary (backup) with the sentinel base,
\* whether or not it ends with a role suffix; any other name that ends with
\* the primary suffix is primary with base the name without the suffix, and
\* likewise for the backup and auxiliary suffixes; any other name is plain
\* with base the whole name; the sentinel base comes from the legacy rule
\* or from a name that spells the sentinel itself
C26_Classification ==
    classified.done =>
        /\ wsName = EXPECTED_WS_MAIN =>
              classified.kind = "main" /\ classified.base = LEGACY_BASE
        /\ wsName = EXPECTED_WS_BACKUP =>
              classified.kind = "backup" /\ classified.base = LEGACY_BASE
        /\ wsName \notin LegacyNames /\ HasSuffix(wsName, SUFFIX_MAIN) =>
              Tagged("main", SUFFIX_MAIN)
        /\ wsName \notin LegacyNames /\ HasSuffix(wsName, SUFFIX_BACKUP) =>
              Tagged("backup", SUFFIX_BACKUP)
        /\ wsName \notin LegacyNames /\ HasSuffix(wsName, SUFFIX_AUX1) =>
              Tagged("aux", SUFFIX_AUX1)
        /\ wsName \notin LegacyNames /\ NoSuffix(wsName) =>
              classified.kind = "plain" /\ classified.base = wsName
        /\ classified.base = LEGACY_BASE =>
              \/ wsName \in LegacyNames
              \/ SubSeq(wsName, 1, Len(LEGACY_BASE)) = LEGACY_BASE

\* the legacy primary name, which ends with the primary suffix, has been
\* classified
C26_Witness ==
    /\ classified.done
    /\ wsName = EXPECTED_WS_MAIN
    /\ HasSuffix(wsName, SUFFIX_MAIN)

\* C26 as stated: every name that ends with a role suffix gets the kind of
\* the suffix and the name without it as base, and the sentinel base goes
\* to legacy names without a suffix only
C26_AsStated ==
    classified.done =>
        /\ HasSuffix(wsName, SUFFIX_MAIN) => Tagged("main", SUFFIX_MAIN)
        /\ HasSuffix(wsName, SUFFIX_BACKUP) => Tagged("backup", SUFFIX_BACKUP)
        /\ HasSuffix(wsName, SUFFIX_AUX1) => Tagged("aux", SUFFIX_AUX1)
        /\ classified.base = LEGACY_BASE /\ classified.kind # "plain" =>
              wsName \in LegacyNames /\ NoSuffix(wsName)

\* no step before the choice of a base raises: no two primary and no two
\* backup candidates share a base, and there is at most one auxiliary
NoEarlierConflict ==
    /\ ~SameBaseTwice("main", Candidates)
    /\ ~SameBaseTwice("backup", Candidates)
    /\ Cardinality(AuxCandidates) <= 1

\* m and b are the primary and the backup candidate of one base, under the
\* given reading of a candidate's base
PairOf(m, b, Base(_)) ==
    /\ m \in Candidates /\ b \in Candidates
    /\ KindOf(m) = "main" /\ KindOf(b) = "backup"
    /\ Base(m) = Base(b)

CompleteBasesBy(Base(_)) == { Base(m) : m \in { x \in Candidates : \E b \in Candidates : PairOf(x, b, Base) } }

\* the pair of the smallest complete base is what decide_roles returned
SmallestPairChosen(Base(_)) ==
    \E m, b \in Candidates :
        /\ PairOf(m, b, Base)
        /\ \A c \in CompleteBasesBy(Base) \ {Base(m)} : StrLess(Base(m), c)
        /\ outcome.kind = "ok"
        /\ outcome.assigned["main"] = EndpointOf(m, "main")
        /\ outcome.assigned["backup"] = EndpointOf(b, "backup")

\* C27 (with the base _classify gives): when several bases have both a
\* primary and a backup candidate and no duplicate or auxiliary conflict
\* precedes, the pair of the base that is smallest in code point order is
\* selected, where the base of the legacy names is the sentinel
\* __legacy_expected__ and is compared under that spelling
C27_SmallestCompleteBase ==
    Decided /\ NoEarlierConflict /\ CompleteBasesBy(BaseOf) # {} =>
        SmallestPairChosen(BaseOf)

\* the legacy pair and the gala pair are both complete, and the legacy pair
\* was selected
C27_Witness ==
    /\ Decided /\ NoEarlierConflict
    /\ Cardinality(CompleteBasesBy(BaseOf)) = 2
    /\ \E m, b \in Candidates :
           /\ m.ws_name = EXPECTED_WS_MAIN /\ b.ws_name = EXPECTED_WS_BACKUP
           /\ m.ip # b.ip
           /\ \E g \in Candidates : g.ws_name = << "g", "a", "l", "a" >> \o SUFFIX_MAIN
           /\ outcome.kind = "ok"
           /\ outcome.assigned["main"] = EndpointOf(m, "main")
           /\ outcome.assigned["backup"] = EndpointOf(b, "backup")

\* the workspace name with the role suffix stripped
StrippedBase(a) ==
    IF HasSuffix(a.ws_name, SUFFIX_MAIN)
        THEN SubSeq(a.ws_name, 1, Len(a.ws_name) - Len(SUFFIX_MAIN))
    ELSE IF HasSuffix(a.ws_name, SUFFIX_BACKUP)
        THEN SubSeq(a.ws_name, 1, Len(a.ws_name) - Len(SUFFIX_BACKUP))
    ELSE IF HasSuffix(a.ws_name, SUFFIX_AUX1)
        THEN SubSeq(a.ws_name, 1, Len(a.ws_name) - Len(SUFFIX_AUX1))
    ELSE a.ws_name

\* C27 as stated: the base of a candidate is its workspace name with the
\* role suffix stripped, and the pair of the smallest such base is selected
C27_AsStated ==
    Decided /\ NoEarlierConflict /\ CompleteBasesBy(StrippedBase) # {} =>
        SmallestPairChosen(StrippedBase)

PrimaryCandidates == { a \in Candidates : KindOf(a) = "main" }

\* the outcome of a decision over an input without a complete base: the
\* candidate of the only base with a primary as main and no backup, or
\* ConflictError when several bases have a primary
SinglePrimaryOutcome ==
    LET bases == { BaseOf(m) : m \in PrimaryCandidates }
    IN  /\ Cardinality(bases) = 1 =>
              \A m \in PrimaryCandidates :
                  /\ outcome.kind = "ok"
                  /\ outcome.assigned["main"] = EndpointOf(m, "main")
                  /\ "backup" \notin DOMAIN outcome.assigned
        /\ Cardinality(bases) > 1 => outcome = Raise("ConflictError")

\* C28 (once the duplicate and auxiliary tests have passed): when no base
\* contains both a primary and a backup, a single base with a primary
\* candidate gives main = that candidate and no backup, whatever backup
\* candidates of other bases and plain workspaces there are; more than one
\* base with a primary gives ConflictError
C28_SinglePrimaryBase ==
    Decided /\ NoEarlierConflict /\ CompleteBasesBy(BaseOf) = {} => SinglePrimaryOutcome

\* the gala primary alone with the legacy backup and a plain workspace:
\* main is the gala primary and nothing else is assigned
C28_Witness ==
    /\ Decided /\ NoEarlierConflict /\ CompleteBasesBy(BaseOf) = {}
    /\ Cardinality(PrimaryCandidates) = 1
    /\ \E b, p \in Candidates :
           /\ KindOf(b) = "backup" /\ b.ws_name = EXPECTED_WS_BACKUP
           /\ KindOf(p) = "plain"
    /\ outcome.kind = "ok"
    /\ DOMAIN outcome.assigned = {"main"}

\* C28 as stated: whenever no base contains both a primary and a backup
C28_AsStated == Decided /\ CompleteBasesBy(BaseOf) = {} => SinglePrimaryOutcome

(***************************************************************************)
(* Order independence of decide_roles (checked under SpecRoles).           *)
(***************************************************************************)
\* what decide_roles returns on every ordering of the responders and of the
\* entries inside each responder
OutcomesOverOrderings == { decide_roles(o) : o \in Orderings(adverts) }

\* C34: decide_roles is independent of input order: for every responder list
\* and every permutation of the responders and of the workspace entries inside
\* each responder, the outcome is the same, i.e. the same role assignment
\* (same address, name and id per role) or an error of the same kind.
C34_OrderIndependent == Decided => OutcomesOverOrderings = {outcome}

\* two responders, one of them with two entries, so that the input has
\* several orderings, decided with an assignment
C34_Witness ==
    /\ Decided
    /\ Cardinality({ a.ip : a \in adverts }) = 2
    /\ Cardinality(adverts) = 3
    /\ Cardinality(Orderings(adverts)) > 1
    /\ outcome.kind = "ok"
    /\ OutcomesOverOrderings = {outcome}

(***************************************************************************)
(* Properties of the reply handler and of connect_endpoint.                *)
(***************************************************************************)
\* the last reply handled named an inner address ending with /thump and was
\* matched neither by the /workspaces nor by the /connect rule
ThumpReply ==
    /\ handled.happened
    /\ EndsWith(Get(handled.j, "address", << >>), << "thump" >>)
    /\ SubSeq(handled.address, 1, 2) # << "reply", "workspaces" >>

\* the handler stamped the sender's address with the time of the reply
MarkedSeen == Get(handled.seen_after, handled.src_ip, 0) = handled.at

NoAck ==
    /\ handled.acks_after = handled.acks_before
    /\ handled.flash_after = handled.flash_before

\* the reply carries a workspace_id that is a non-empty string
CarriesWsid == "workspace_id" \in DOMAIN handled.j /\ handled.j.workspace_id # ""

\* C29 (with the identifier the code asks for): a reply whose inner address
\* ends with /thump, that the /workspaces and /connect rules do not match,
\* marks the sender last-seen exactly when its status is ok and it carries
\* a non-empty workspace_id; otherwise it leaves last-seen alone; it never
\* invokes the acknowledgement callback
C29_ThumpMarksSeen ==
    ThumpReply =>
        /\ handled.j.status = "ok" /\ CarriesWsid => MarkedSeen
        /\ handled.j.status # "ok" \/ ~CarriesWsid =>
              handled.seen_after = handled.seen_before
        /\ NoAck

\* a thump reply with status ok and no workspace_id came from the address
\* of main, after one with an identifier had marked it
C29_Witness ==
    /\ ThumpReply
    /\ handled.j.status = "ok"
    /\ "workspace_id" \notin DOMAIN handled.j
    /\ handled.src_ip = ConnEp.ip
    /\ role_from_ip(handled.src_ip) = "main"
    /\ Get(handled.seen_before, handled.src_ip, 0) > 0
    /\ handled.seen_after = handled.seen_before

\* C29 as stated: a thump reply with status ok marks the sender last-seen
\* whether or not it carries a workspace_id
C29_AsStated ==
    ThumpReply =>
        /\ handled.j.status = "ok" => MarkedSeen
        /\ handled.j.status # "ok" => handled.seen_after = handled.seen_before
        /\ NoAck

\* C30: connect_endpoint returns true exactly when a reply with status ok
\* arrived under its key between arm and its return; woken by a reply with
\* another status it returns false and leaves last-seen alone; on timeout
\* it returns false; no event is registered under the key when it returns
C30_ConnectResult ==
    left.happened =>
        /\ left.result <=> "ok" \in left.arrived
        /\ left.woken /\ "ok" \notin left.arrived =>
              ~left.result /\ left.seen_after = left.seen_before
        /\ ~left.woken => ~left.result
        /\ ~left.registered

\* C31: a pop returns nothing or a payload stored after the most recent arm
\* of its key, never one deposited before that arm; a set on a key with no
\* registered event sets no event
C31_StalePayloadDiscarded ==
    /\ left.happened /\ left.payload # PyNone => left.payload.serial > left.armedAt
    /\ handled.happened /\ ~handled.registered => handled.set_after = handled.set_before

\* a reply was stored under a key nobody had armed, the key was armed after
\* it, a second reply set the event, and the pop returned the second
C31_Witness ==
    /\ handled.happened /\ handled.registered
    /\ left.happened
    /\ left.key = handled.key
    /\ left.armedAt = 1
    /\ left.payload # PyNone
    /\ left.payload.serial = 2

\* C35: when two threads issue a request under the same waiter key at once
\* and the remote answers with status ok before the timeout, each call
\* returns success: a call during whose wait only replies with status ok
\* arrived under its key does not return false
C35_ConcurrentCallsSucceed ==
    left.happened /\ left.arrived = {"ok"} => left.result

(***************************************************************************)
(* Properties of discover_by_broadcast.                                    *)
(***************************************************************************)
\* the listing of the last reply the address gave in a window, << >> when it
\* gave none or the reply has no listing
ListingIn(got, ip) ==
    IF ip \in DOMAIN got THEN parse_workspaces(got[ip]) ELSE << >>

\* the entry of the address in the returned list, << >> when it has none
Returned(ip) ==
    LET hits == SelectSeq(found, LAMBDA x : x[1] = ip)
    IN  IF Len(hits) = 0 THEN << >> ELSE hits[1][2]

\* C32: a call of discover_by_broadcast that has returned cleared the store
\* and broadcast /workspaces, then cleared the store again and broadcast
\* the three flags and /workspaces, whatever phase 1 received; it returned
\* one entry per address that gave a listing in the window of either phase,
\* the listing of phase 2 where there is one and that of phase 1 otherwise
C32_BothPhasesMerged ==
    discPc = "done" =>
        /\ discLog = << "clear", P_WORKSPACES, "clear", P_UDP_REPLY_PORT,
                        P_ALWAYS_REPLY, P_FORGET_ME_NOT, P_WORKSPACES >>
        /\ \A ip \in IPs :
               Returned(ip) = IF ListingIn(got2, ip) # << >> THEN ListingIn(got2, ip)
                              ELSE ListingIn(got1, ip)
        /\ Len(found) = Cardinality({ ip \in IPs : Returned(ip) # << >> })

\* one address answered in both phases with different listings, the other
\* in phase 1 only
C32_Witness ==
    /\ discPc = "done"
    /\ nAdds = MaxAdds
    /\ ListingIn(got1, IpList[1]) # << >>
    /\ ListingIn(got2, IpList[1]) # << >>
    /\ ListingIn(got1, IpList[1]) # ListingIn(got2, IpList[1])
    /\ ListingIn(got1, IpList[2]) # << >>
    /\ IpList[2] \notin DOMAIN got2
    /\ Len(found) = 2

(***************************************************************************)
(* Properties of the per-role LED states.                                  *)
(***************************************************************************)
\* the role has an endpoint in the record
Present(r) == r \in DOMAIN load_paired_endpoints(state)

\* the role's address was last seen less than OFFLINE_AFTER ago
SeenLately(r) ==
    LET seen == Get(seenCs, load_paired_endpoints(state)[r].ip, 0)
    IN  seen > 0 /\ monoCs - seen < OFFLINE_AFTER * 100

WindowOpen(until, r) == Get(until, r, 0) # 0 /\ monoCs < Get(until, r, 0)

\* the state the role's pixel is to have at the present time
RoleLedState(r) ==
    IF WindowOpen(_HEAL_MISMATCH_UNTIL, r) THEN Steady(dim(C_RED))
    ELSE IF ~Present(r)
      THEN IF WindowOpen(_MISSING_UNTIL, r) THEN Steady(dim(C_RED))
           ELSE Steady(dim(C_OFF))
    ELSE IF SeenLately(r) THEN Steady(dim(C_GREEN))
    ELSE Blinking(dim(C_RED), BLINK_TOGGLE_NORM)

NoPairingFlag == ~_PAIR_CONFLICT /\ ~_PAIR_FATAL_FAIL /\ ~DISCOVERY_ACTIVE

\* C33: a supervisor tick over a paired record with no pairing flag set
\* leaves each role's pixel steady red while the role's repair window is
\* open; otherwise, for an absent role, steady red while the window the
\* pairing opened for it is open and off afterwards; otherwise steady green
\* for a role seen less than 8 s ago and red blinking with half-period
\* 0.5 s for one that was not
C33_RoleLedStates ==
    [][led_tick /\ Get(state, "paired", FALSE) /\ NoPairingFlag =>
          \A r \in RoleSet : PixelState(r)' \in RoleLedState(r)]_vars

\* after a tick: main is in its repair window and red though it was seen
\* lately, backup is absent past the window its pairing opened and off
C33_Witness ==
    /\ ticked.read /\ ticked.paired /\ NoPairingFlag
    /\ \A r \in RoleSet : PixelState(r) \in RoleLedState(r)
    /\ WindowOpen(_HEAL_MISMATCH_UNTIL, "main") /\ Present("main") /\ SeenLately("main")
    /\ PixelState("main") \in Steady(dim(C_RED))
    /\ ~Present("backup") /\ _MISSING_UNTIL["backup"] # 0
    /\ ~WindowOpen(_MISSING_UNTIL, "backup")
    /\ PixelState("backup") \in Steady(dim(C_OFF))

(***************************************************************************)
(* Properties of the connect refresh (checked under SpecConnect).          *)
(***************************************************************************)
\* the time of the last connect sent for the workspace of the role
LastConnect(role) ==
    LET ep == load_paired_endpoints(state)[role]
    IN  Get(connects, << ep.ip, ep.workspace_id >>, 0)

\* C38: for every paired role that has a workspace identifier, the passes of
\* the supervisor keep sending /workspace/<id>/connect for the role's own
\* workspace: with a pass every second at least, the last connect for it
\* is never more than CONNECT_REFRESH_EVERY old, also when main and backup
\* are two workspaces at one address
C38_ConnectRefreshed ==
    \A role \in DOMAIN load_paired_endpoints(state) :
        load_paired_endpoints(state)[role].workspace_id # "" =>
            now - LastConnect(role) <= CONNECT_REFRESH_EVERY

\* the role is reported online: Endpoint.online after _inject_last_seen
ReportedOnline(role) ==
    online(_inject_last_seen(load_paired_endpoints(state))[role], now)

\* a reply with status ok about the role's own workspace came from its
\* address less than OFFLINE_AFTER ago
OwnReplyLately(role) ==
    LET ep == load_paired_endpoints(state)[role]
        at == Get(okReply, << ep.ip, ep.workspace_id >>, 0)
    IN  at > 0 /\ (now - at) < OFFLINE_AFTER

\* C39: a paired role is reported online only if a reply with status ok
\* about the role's own workspace identifier was received from its address
\* less than 8 s ago; an ok reply about another role's workspace at the same
\* address does not make it online
C39_OnlineByOwnReply ==
    \A role \in DOMAIN load_paired_endpoints(state) :
        ReportedOnline(role) => OwnReplyLately(role)

=============================================================================
